---- MODULE Spec2Model ----
(***************************************************************************)
(* Model of the parameter-generation-and-validation pipeline of            *)
(* OpenMindat_AI: ParamGeneration (servers/server_mindat.py),              *)
(* RuleValidator (utils/rule_validator.py), ModelValidator                 *)
(* (utils/model_validator.py) and ValidationPipeline                       *)
(* (utils/validation_pipeline.py).                                         *)
(*                                                                         *)
(* Python values are tagged records, so that values of different Python    *)
(* types can be compared.  A Python dict is the sequence of its            *)
(* <<key, value>> pairs in insertion order.  A Python str that the code    *)
(* takes apart (el_inc, el_exc) is a sequence of one-character strings.    *)
(***************************************************************************)
EXTENDS Integers, Sequences, FiniteSets, TLC

VARIABLES
    num_generations,  \* ParamGeneration.num_generations
    pc,               \* position of generate_params
    attempt,          \* generate_params: the consensus loop's index
    tasks,            \* the _generate_once coroutines of the current group
    results,          \* generate_params: results
    ret,              \* value returned by generate_params
    raised,           \* exception that left generate_params ("" = none)
    oracle_called,    \* history: structured_llm.ainvoke was called at all
    oracle_calls,     \* history kept by CountedOracleCall: the structured_llm.ainvoke calls made
    own,              \* history: last oracle reply delivered to each coroutine
    calls,            \* history: prompt and reply of each oracle call (SpecOnce)
    rounds,           \* history: number of task groups launched
    consensus,        \* generate_params: consensus
    params,           \* RuleValidator.run_validation: params
    rule_result,      \* value returned by RuleValidator.run_validation
    corrections,      \* values returned by successive apply_corrections calls
    original_query,   \* ValidationPipeline.validate: original_query
    endpoint,         \* ValidationPipeline.validate: endpoint
    llm,              \* ModelValidator.llm
    endpoint_docs,    \* what get_geomaterials_endpoint yields in this process
    semantic_calls,   \* history: arguments of each ModelValidator.run_validation
    semantic_prompts, \* history: what each semantic oracle call was given
    semantic_reply,   \* history: how the semantic layer's oracle call ended
    model_result,     \* value returned by ModelValidator.run_validation
    validate_ret,     \* value returned by ValidationPipeline.validate
    schema_file,      \* the file at MindatAPISchemaManager.schema_path
    network,          \* whether requests.get(schema_url) can succeed
    managers,         \* the MindatAPISchemaManager instances of the process
    callers,          \* the calls of get_params_info under way or finished
    schema_log        \* history: downloads, loads, extractions, cache writes

\* the variables of ValidationPipeline.validate and of the correction step
PipelineVars == <<corrections, original_query, endpoint, llm, endpoint_docs, semantic_calls,
                  semantic_prompts, semantic_reply, model_result, validate_ret>>

\* the variables of the schema registry
SchemaVars == <<schema_file, network, managers, callers, schema_log>>

vars == <<num_generations, pc, attempt, tasks, results, ret, raised,
          oracle_called, oracle_calls, own, calls, rounds, consensus, params, rule_result,
          corrections, original_query, endpoint, llm, endpoint_docs, semantic_calls,
          semantic_prompts, semantic_reply, model_result, validate_ret,
          schema_file, network, managers, callers, schema_log>>

\* the variables ParamGeneration does not touch
NotGen == <<params, rule_result, PipelineVars, SchemaVars>>
\* the variables RuleValidator does not touch
NotRule == <<num_generations, attempt, tasks, results, ret,
             oracle_called, oracle_calls, own, calls, rounds, consensus, PipelineVars, SchemaVars>>

(***************************************************************************)
(* Python values                                                           *)
(***************************************************************************)
None == [t |-> "None"]
Bool(b) == [t |-> "bool", v |-> b]
Num(n) == [t |-> "num", v |-> n]
Str(s) == [t |-> "str", v |-> s]
Text(s) == [t |-> "text", v |-> s]
List(l) == [t |-> "list", v |-> l]
Dict(d) == [t |-> "dict", v |-> d]
Dicts(l) == [t |-> "dicts", v |-> l]
Exception(e) == [t |-> "exc", v |-> e]

Range(s) == {s[i] : i \in DOMAIN s}

\* dict: k in d
HasKey(d, k) == \E i \in DOMAIN d : d[i][1] = k
\* dict.keys()
Keys(d) == {d[i][1] : i \in DOMAIN d}
\* dict.get(k): None when the key is missing
Get(d, k) == IF HasKey(d, k) THEN d[CHOOSE i \in DOMAIN d : d[i][1] = k][2] ELSE None

(***************************************************************************)
(* json.dumps(r, sort_keys=True) and json.loads                            *)
(***************************************************************************)
\* the keys the program's dicts use, in str order (what sort_keys compares)
KeyOrder == <<"candidates", "consensus_failed", "crystal_system", "el_exc", "el_inc",
              "error message", "expand", "generation_index", "hardness_max",
              "hardness_min", "ima", "message">>
KeyRank(k) == CHOOSE i \in DOMAIN KeyOrder : KeyOrder[i] = k

RECURSIVE SortPairs(_)
\* the pairs of a dict in ascending key order (selection of the least key first)
SortPairs(d) ==
    IF d = <<>> THEN <<>>
    ELSE LET m == CHOOSE i \in DOMAIN d :
                      \A j \in DOMAIN d : KeyRank(d[i][1]) <= KeyRank(d[j][1])
             rest == [j \in 1..(Len(d) - 1) |-> IF j < m THEN d[j] ELSE d[j + 1]]
         IN <<d[m]>> \o SortPairs(rest)

\* The JSON text of a dict: its members in sorted key order; the members'
\* values are written as they are, a list in the order of its elements.
json_dumps_sort_keys(r) == [json |-> SortPairs(r)]
\* Parsing builds the dict in the order of the text's members.
json_loads(s) == s.json

(***************************************************************************)
(* The oracle (structured_llm.ainvoke) and its replies                     *)
(***************************************************************************)
MindatQueryDict(ima, hmin, hmax, cs, inc, exc) ==
    [ima |-> ima, hardness_min |-> hmin, hardness_max |-> hmax,
     crystal_system |-> cs, el_inc |-> inc, el_exc |-> exc]

\* BaseModel.model_dump(): every declared field, in declaration order
model_dump(m) ==
    << <<"ima", m.ima>>, <<"hardness_min", m.hardness_min>>,
       <<"hardness_max", m.hardness_max>>, <<"crystal_system", m.crystal_system>>,
       <<"el_inc", m.el_inc>>, <<"el_exc", m.el_exc>> >>

\* structured responses the oracle may give: two that differ only in the
\* order of crystal_system, and a different one
RespHexTrig == MindatQueryDict(Bool(TRUE), None, None,
                               List(<<"Hexagonal", "Trigonal">>), None, None)
RespTrigHex == MindatQueryDict(Bool(TRUE), None, None,
                               List(<<"Trigonal", "Hexagonal">>), None, None)
RespIma == MindatQueryDict(Bool(TRUE), None, None, None, None, None)
Responses == {RespHexTrig, RespTrigHex, RespIma}

\* exceptions an oracle call may raise
TimeoutError == [type |-> "TimeoutError", msg |-> "timed out"]
ValidationError == [type |-> "ValidationError", msg |-> "bad output"]
RateLimitError == [type |-> "RateLimitError", msg |-> "too many requests"]

Returned(m) == [kind |-> "return", v |-> m]
Raised(e) == [kind |-> "raise", v |-> e]
NoReply == [kind |-> "none"]
\* how an oracle call of generate_params may end
Replies == {Returned(m) : m \in Responses} \cup {Raised(TimeoutError)}
\* how an oracle call of a _generate_once run on its own may end
OnceReplies == Replies \cup {Raised(ValidationError), Raised(RateLimitError)}

(***************************************************************************)
(* ParamGeneration._generate_once                                          *)
(***************************************************************************)
\* for attempt in range(3)
RetryRange == 3
\* if attempt == 2
LastRetry == 2

BasePrompt == "Given the user input: ..., generate a JSON object with the following fields: "

\* human_prompt of the call made at `att` with `last_exception`
HumanPrompt(att, last_exception) ==
    IF last_exception # None /\ att > 0
    THEN [base |-> BasePrompt,
          feedback |-> <<att, last_exception.v.type, last_exception.v.msg>>]
    ELSE [base |-> BasePrompt, feedback |-> <<>>]

\* {"error message": "Error after 3 attempts: " + str(last_exception)}
ErrorAfter3(e) == << <<"error message", Text(<<"Error after 3 attempts: ", e.msg>>)>> >>

NoTask == [st |-> "none", attempt |-> 0, last_exception |-> None, result |-> None]
\* a coroutine at the top of its loop, before its first call
NewTask == [st |-> "running", attempt |-> 0, last_exception |-> None, result |-> None]
\* a coroutine that returned: its locals are gone, its result stays
TaskDone(r) == [st |-> "done", attempt |-> 0, last_exception |-> None, result |-> Dict(r)]

\* the loop, were it to give up only after a fourth failure
GenerateOnceStep_Retry4(g, reply) ==
    IF reply.kind = "return"
    THEN TaskDone(model_dump(reply.v))
    ELSE IF g.attempt = LastRetry + 1
         THEN TaskDone(ErrorAfter3(reply.v))
         ELSE [g EXCEPT !.attempt = @ + 1, !.last_exception = Exception(reply.v)]

\* the loop, were it to remember the first failure only
GenerateOnceStep_FirstError(g, reply) ==
    IF reply.kind = "return"
    THEN TaskDone(model_dump(reply.v))
    ELSE IF g.attempt = LastRetry
         THEN TaskDone(ErrorAfter3(reply.v))
         ELSE [g EXCEPT !.attempt = @ + 1,
                        !.last_exception = IF @ = None THEN Exception(reply.v) ELSE @]

\* One iteration of the retry loop of the coroutine g, whose oracle call ends
\* with `reply`: return the dumped response, or record the exception and go
\* on, or give up with the error descriptor.
GenerateOnceStep(g, reply) ==
    IF reply.kind = "return"
    THEN TaskDone(model_dump(reply.v))
    ELSE IF g.attempt = LastRetry
         THEN TaskDone(ErrorAfter3(reply.v))
         ELSE IF g.attempt + 1 < RetryRange
              THEN [g EXCEPT !.attempt = @ + 1, !.last_exception = Exception(reply.v)]
              ELSE TaskDone(ErrorAfter3(reply.v))

(***************************************************************************)
(* ParamGeneration._get_consensus                                          *)
(***************************************************************************)
IsError(r) == HasKey(r, "error message")

\* the vote, were it taken on every result
ValidResults_All(rs) == rs

\* valid_results = [r for r in results if "error message" not in r]
ValidResults(rs) == SelectSeq(rs, LAMBDA r : ~IsError(r))

\* Counter(json_strings)[s]
Count(json_strings, s) == Cardinality({i \in DOMAIN json_strings : json_strings[i] = s})

\* Counter(json_strings).most_common(1)[0]: the highest count, the first
\* inserted among equals
MostCommon(json_strings) ==
    LET best == CHOOSE i \in DOMAIN json_strings :
                    /\ \A j \in DOMAIN json_strings :
                           Count(json_strings, json_strings[j]) <= Count(json_strings, json_strings[i])
                    /\ \A j \in 1..(i - 1) :
                           Count(json_strings, json_strings[j]) < Count(json_strings, json_strings[i])
    IN [key |-> json_strings[best], count |-> Count(json_strings, json_strings[best])]

_get_consensus(rs) ==
    IF rs = <<>> THEN Bool(FALSE)
    ELSE LET valid_results == ValidResults(rs)
         IN IF Len(valid_results) < 2 THEN Bool(FALSE)
            ELSE LET json_strings == [i \in DOMAIN valid_results |->
                                         json_dumps_sort_keys(valid_results[i])]
                     mc == MostCommon(json_strings)
                 IN IF mc.count >= 2 THEN Dict(json_loads(mc.key)) ELSE Bool(FALSE)

(***************************************************************************)
(* ParamGeneration.generate_params                                         *)
(***************************************************************************)
\* largest num_generations the constructor is given
MaxNumGenerations == 4
TaskIds == 1..MaxNumGenerations

\* max_consensus_attempts = 3
max_consensus_attempts == 3

ConsensusFailedMessage == "Parameter generation failed to reach consensus after 3 attempts. Results were inconsistent. Please select one of the candidates or refine your query."

\* the attributes a ValidationPipeline instance has: the two set by __init__
\* and the one method of the class
ValidationPipelineAttributes == {"rule_validator", "model_validator", "validate"}

\* self.validation_pipeline.<name>: the exception the lookup raises, "" if none
AttributeLookup(name) ==
    IF name \in ValidationPipelineAttributes THEN "" ELSE "AttributeError"

\* safe_generate(index): the coroutine's own result, or, had _generate_once
\* raised, the error descriptor built from its exception
safe_generate(index, g) ==
    IF g.st = "raised"
    THEN TaskDone(<< <<"error message", Text(<<"Error in generation ", index, g.last_exception.v.msg>>)>>,
                     <<"generation_index", Num(index)>> >>)
    ELSE g

\* leaving `async with asyncio.TaskGroup()`: every task of the group is done
AllTasksDone(ts, n) == \A i \in 1..n : ts[i].st = "done"

\* every entry taken from the first task
TaskResults_First(ts, n) == [i \in 1..n |-> ts[1].result.v]

\* results = [task.result() for task in tasks]
TaskResults(ts, n) == [i \in 1..n |-> ts[i].result.v]

\* the results unfiltered
FailureCandidates_All(rs) == rs

\* valid_candidates = [r for r in results if "error message" not in r]
FailureCandidates(rs) == SelectSeq(rs, LAMBDA r : ~IsError(r))

FailureBundle(rs) ==
    << <<"consensus_failed", Bool(TRUE)>>,
       <<"message", Text(ConsensusFailedMessage)>>,
       <<"candidates", Dicts(FailureCandidates(rs))>> >>

Unset == [t |-> "unset"]

\* most MindatAPISchemaManager instances made in the process
MaxManagers == 2
ManagerIds == 1..MaxManagers
\* most get_params_info calls made in the process
MaxCalls == 2
CallIds == 1..MaxCalls

\* an instance that was not made yet
NoManager == [made |-> FALSE, schema_data |-> None, endpoints_cache |-> <<>>]
\* a call that was not made yet
NoCall == [st |-> "none"]

\* no schema registry is in use
NoSchema ==
    /\ schema_file = "good"
    /\ network = "up"
    /\ managers = [m \in ManagerIds |-> NoManager]
    /\ callers = [c \in CallIds |-> NoCall]
    /\ schema_log = <<>>

\* no ValidationPipeline call and no correction is under way
NoPipeline ==
    /\ corrections = <<>>
    /\ original_query = ""
    /\ endpoint = "/v1/geomaterials/"
    /\ llm = None
    /\ endpoint_docs = <<>>
    /\ semantic_calls = <<>>
    /\ semantic_prompts = <<>>
    /\ semantic_reply = NoReply
    /\ model_result = Unset
    /\ validate_ret = Unset

TypeOK ==
    /\ num_generations \in 0..MaxNumGenerations
    /\ pc \in {"start", "single", "spawn", "join", "done", "raised"}
    /\ attempt \in 0..(max_consensus_attempts - 1)
    /\ raised \in {"", "ValueError", "AttributeError", "TypeError"}
    /\ oracle_called \in BOOLEAN
    /\ rounds \in 0..max_consensus_attempts

Init ==
    /\ num_generations \in 0..MaxNumGenerations
    /\ pc = "start"
    /\ attempt = 0
    /\ tasks = [i \in TaskIds |-> NoTask]
    /\ results = <<>>
    /\ ret = <<>>
    /\ raised = ""
    /\ oracle_called = FALSE
    /\ oracle_calls = 0
    /\ own = [i \in TaskIds |-> NoReply]
    /\ calls = <<>>
    /\ rounds = 0
    /\ consensus = Unset
    /\ params = <<>>
    /\ rule_result = Unset
    /\ NoPipeline
    /\ NoSchema

\* the single-attempt path, were it taken for every count but 3
EnterSingle_Any ==
    /\ pc = "start"
    /\ num_generations # 3
    /\ pc' = "single"
    /\ tasks' = [tasks EXCEPT ![1] = NewTask]
    /\ UNCHANGED NotGen
    /\ UNCHANGED <<num_generations, attempt, results, ret, raised, oracle_called, oracle_calls,
                   own, calls, rounds, consensus>>

\* if self.num_generations == 1: return [await self._generate_once()]
EnterSingle ==
    /\ pc = "start"
    /\ num_generations = 1
    /\ pc' = "single"
    /\ tasks' = [tasks EXCEPT ![1] = NewTask]
    /\ UNCHANGED NotGen
    /\ UNCHANGED <<num_generations, attempt, results, ret, raised, oracle_called, oracle_calls,
                   own, calls, rounds, consensus>>

\* if self.num_generations != 3: raise ValueError(...)
EnterInvalid ==
    /\ pc = "start"
    /\ num_generations # 1
    /\ num_generations # 3
    /\ pc' = "raised"
    /\ raised' = "ValueError"
    /\ UNCHANGED NotGen
    /\ UNCHANGED <<num_generations, attempt, tasks, results, ret, oracle_called, oracle_calls,
                   own, calls, rounds, consensus>>

\* max_consensus_attempts = 3; for attempt in range(max_consensus_attempts)
EnterConsensus ==
    /\ pc = "start"
    /\ num_generations # 1
    /\ num_generations = 3
    /\ pc' = "spawn"
    /\ attempt' = 0
    /\ UNCHANGED NotGen
    /\ UNCHANGED <<num_generations, tasks, results, ret, raised, oracle_called, oracle_calls,
                   own, calls, rounds, consensus>>

\* async with asyncio.TaskGroup() as tg: tasks = [tg.create_task(safe_generate(i)) ...]
StartRound ==
    /\ pc = "spawn"
    /\ tasks' = [i \in TaskIds |-> IF i <= num_generations THEN NewTask ELSE NoTask]
    /\ own' = [i \in TaskIds |-> NoReply]
    /\ pc' = "join"
    /\ rounds' = rounds + 1
    /\ UNCHANGED NotGen
    /\ UNCHANGED <<num_generations, attempt, results, ret, raised, oracle_called, oracle_calls,
                   calls, consensus>>

\* structured_llm.ainvoke of coroutine i completes with `reply`
OracleStep(i, reply) ==
    /\ pc \in {"single", "join"}
    /\ tasks[i].st = "running"
    /\ tasks' = [tasks EXCEPT ![i] =
                    IF pc = "join" THEN safe_generate(i, GenerateOnceStep(@, reply))
                    ELSE GenerateOnceStep(@, reply)]
    /\ own' = [own EXCEPT ![i] = reply]
    /\ oracle_called' = TRUE
    /\ UNCHANGED NotGen
    /\ UNCHANGED <<num_generations, pc, attempt, results, ret, raised, calls, rounds, consensus>>

OracleCall(i, reply) == OracleStep(i, reply) /\ UNCHANGED oracle_calls


\* the single-attempt return, were a vote taken on its result
ReturnSingle_Voted ==
    /\ pc = "single"
    /\ tasks[1].st = "done"
    /\ ret' = <<tasks[1].result.v>>
    /\ consensus' = _get_consensus(ret')
    /\ pc' = "done"
    /\ UNCHANGED NotGen
    /\ UNCHANGED <<num_generations, attempt, tasks, results, raised, oracle_called, oracle_calls,
                   own, calls, rounds>>

\* return [await self._generate_once()]
ReturnSingle ==
    /\ pc = "single"
    /\ tasks[1].st = "done"
    /\ ret' = <<tasks[1].result.v>>
    /\ pc' = "done"
    /\ UNCHANGED NotGen
    /\ UNCHANGED <<num_generations, attempt, tasks, results, raised, oracle_called, oracle_calls,
                   own, calls, rounds, consensus>>

\* the vote, were a further round to follow a consensus
Collect_NextRound ==
    /\ pc = "join"
    /\ AllTasksDone(tasks, num_generations)
    /\ results' = TaskResults(tasks, num_generations)
    /\ consensus' = _get_consensus(results')
    /\ IF attempt < max_consensus_attempts - 1
       THEN /\ attempt' = attempt + 1
            /\ pc' = "spawn"
            /\ UNCHANGED <<ret, raised>>
       ELSE /\ ret' = <<FailureBundle(results')>>
            /\ pc' = "done"
            /\ UNCHANGED <<attempt, raised>>
    /\ UNCHANGED NotGen
    /\ UNCHANGED <<num_generations, tasks, oracle_called, oracle_calls, own, calls, rounds>>

\* the vote, were it taken on the results of the earlier round as well
Collect_Pooled ==
    /\ pc = "join"
    /\ AllTasksDone(tasks, num_generations)
    /\ results' = TaskResults(tasks, num_generations)
    /\ consensus' = _get_consensus(results \o results')
    /\ IF consensus'.t = "dict"
       THEN /\ raised' = AttributeLookup("_get_rule_validated_param")
            /\ pc' = "raised"
            /\ UNCHANGED <<attempt, ret>>
       ELSE IF attempt < max_consensus_attempts - 1
            THEN /\ attempt' = attempt + 1
                 /\ pc' = "spawn"
                 /\ UNCHANGED <<ret, raised>>
            ELSE /\ ret' = <<FailureBundle(results')>>
                 /\ pc' = "done"
                 /\ UNCHANGED <<attempt, raised>>
    /\ UNCHANGED NotGen
    /\ UNCHANGED <<num_generations, tasks, oracle_called, oracle_calls, own, calls, rounds>>

\* The group is complete: collect the results and vote.  On consensus the
\* lookup of _get_rule_validated_param on the pipeline raises; otherwise the
\* next round starts, or after the last round the failure bundle is returned.
Collect ==
    /\ pc = "join"
    /\ AllTasksDone(tasks, num_generations)
    /\ results' = TaskResults(tasks, num_generations)
    /\ consensus' = _get_consensus(results')
    /\ IF consensus'.t = "dict"
       THEN /\ raised' = AttributeLookup("_get_rule_validated_param")
            /\ pc' = "raised"
            /\ UNCHANGED <<attempt, ret>>
       ELSE IF attempt < max_consensus_attempts - 1
            THEN /\ attempt' = attempt + 1
                 /\ pc' = "spawn"
                 /\ UNCHANGED <<ret, raised>>
            ELSE /\ ret' = <<FailureBundle(results')>>
                 /\ pc' = "done"
                 /\ UNCHANGED <<attempt, raised>>
    /\ UNCHANGED NotGen
    /\ UNCHANGED <<num_generations, tasks, oracle_called, oracle_calls, own, calls, rounds>>

Next ==
    \/ EnterSingle
    \/ EnterInvalid
    \/ EnterConsensus
    \/ StartRound
    \/ \E i \in TaskIds, reply \in Replies : OracleCall(i, reply)
    \/ ReturnSingle
    \/ Collect

Spec == Init /\ [][Next]_vars

(***************************************************************************)
(* generate_params with its oracle calls counted, every pending call       *)
(* eventually completing and every ready coroutine eventually running      *)
(***************************************************************************)
\* a structured response that spells its element symbols in lower case
RespLowerCase == MindatQueryDict(Bool(TRUE), None, None, None,
                                 Str(<<"f", "e", ",", "c", "u">>), None)

\* how a counted oracle call may end
CountReplies == {Returned(RespLowerCase), Raised(TimeoutError)}

CountedOracleCall(i, reply) ==
    /\ OracleStep(i, reply)
    /\ oracle_calls' = oracle_calls + 1

\* the steps generate_params takes by itself, the vote apart
ProgramStep ==
    \/ EnterSingle
    \/ EnterInvalid
    \/ EnterConsensus
    \/ StartRound
    \/ ReturnSingle

NextCount ==
    \/ ProgramStep
    \/ Collect
    \/ \E i \in TaskIds, reply \in CountReplies : CountedOracleCall(i, reply)

\* WF_vars(Collect), with ENABLED <<Collect>>_vars written out as the guard
\* of Collect (every Collect step changes pc)
CollectFair ==
    \/ []<>~(pc = "join" /\ AllTasksDone(tasks, num_generations))
    \/ []<><<Collect>>_vars

\* The event loop runs a coroutine that is ready, and every pending oracle
\* call eventually returns or fails.
SpecCount ==
    /\ Init
    /\ [][NextCount]_vars
    /\ WF_vars(ProgramStep)
    /\ CollectFair
    /\ \A i \in TaskIds : WF_vars(\E reply \in CountReplies : CountedOracleCall(i, reply))

(***************************************************************************)
(* _generate_once run on its own, with the history of its oracle calls     *)
(***************************************************************************)
InitOnce ==
    /\ num_generations = 1
    /\ pc = "once"
    /\ attempt = 0
    /\ tasks = [i \in TaskIds |-> IF i = 1 THEN NewTask ELSE NoTask]
    /\ results = <<>>
    /\ ret = <<>>
    /\ raised = ""
    /\ oracle_called = FALSE
    /\ oracle_calls = 0
    /\ own = [i \in TaskIds |-> NoReply]
    /\ calls = <<>>
    /\ rounds = 0
    /\ consensus = Unset
    /\ params = <<>>
    /\ rule_result = Unset
    /\ NoPipeline
    /\ NoSchema

\* one structured_llm.ainvoke of the coroutine, ending with `reply`
OnceCall(reply) ==
    /\ pc = "once"
    /\ tasks[1].st = "running"
    /\ calls' = Append(calls, [prompt |-> HumanPrompt(tasks[1].attempt, tasks[1].last_exception),
                               reply |-> reply])
    /\ tasks' = [tasks EXCEPT ![1] = GenerateOnceStep(@, reply)]
    /\ own' = [own EXCEPT ![1] = reply]
    /\ oracle_called' = TRUE
    /\ UNCHANGED NotGen
    /\ UNCHANGED <<num_generations, pc, attempt, results, ret, raised, rounds, consensus,
                   oracle_calls>>

\* the coroutine's value reaches its awaiter
OnceReturn ==
    /\ pc = "once"
    /\ tasks[1].st = "done"
    /\ ret' = <<tasks[1].result.v>>
    /\ pc' = "done"
    /\ UNCHANGED NotGen
    /\ UNCHANGED <<num_generations, attempt, tasks, results, raised, oracle_called, oracle_calls,
                   own, calls, rounds, consensus>>

NextOnce ==
    \/ \E reply \in OnceReplies : OnceCall(reply)
    \/ OnceReturn

SpecOnce == InitOnce /\ [][NextOnce]_vars

(***************************************************************************)
(* _get_consensus applied to one list of results                           *)
(***************************************************************************)
\* longest list of results handed to _get_consensus
MaxResults == 3

\* a dict with the members of d in reverse insertion order
Reversed(d) == [i \in DOMAIN d |-> d[Len(d) + 1 - i]]

RespNotIma == MindatQueryDict(Bool(FALSE), None, None, None, None, None)

\* results a list may hold: dumped responses (one of them also with its
\* members in another order) and the two error descriptors
ResultPool ==
    {model_dump(RespHexTrig), model_dump(RespTrigHex), Reversed(model_dump(RespHexTrig)),
     model_dump(RespIma), model_dump(RespNotIma),
     ErrorAfter3(TimeoutError),
     safe_generate(2, [st |-> "raised", attempt |-> 0,
                       last_exception |-> Exception(TimeoutError), result |-> None]).result.v}

ResultLists == UNION {[1..n -> ResultPool] : n \in 0..MaxResults}

InitConsensus ==
    /\ num_generations = 3
    /\ pc = "vote"
    /\ attempt = 0
    /\ tasks = [i \in TaskIds |-> NoTask]
    /\ results \in ResultLists
    /\ ret = <<>>
    /\ raised = ""
    /\ oracle_called = FALSE
    /\ oracle_calls = 0
    /\ own = [i \in TaskIds |-> NoReply]
    /\ calls = <<>>
    /\ rounds = 0
    /\ consensus = Unset
    /\ params = <<>>
    /\ rule_result = Unset
    /\ NoPipeline
    /\ NoSchema

\* consensus = self._get_consensus(results)
Vote ==
    /\ pc = "vote"
    /\ consensus' = _get_consensus(results)
    /\ pc' = "voted"
    /\ UNCHANGED NotGen
    /\ UNCHANGED <<num_generations, attempt, tasks, results, ret, raised,
                   oracle_called, oracle_calls, own, calls, rounds>>

NextConsensus == Vote

SpecConsensus == InitConsensus /\ [][NextConsensus]_vars

(***************************************************************************)
(* str operations on sequences of characters                               *)
(***************************************************************************)
\* the characters the model's strings are made of, in code point order
CodePoints ==
    <<" ", ",", "0", "1", "2", "3", "4", "5", "6", "7", "8", "9", "A", "B", "C", "D",
      "E", "F", "G", "H", "I", "J", "K", "L", "M", "N", "O", "P", "Q", "R", "S", "T",
      "U", "V", "W", "X", "Y", "Z", "[", "]", "a", "b", "c", "d", "e", "f", "g", "h",
      "i", "j", "k", "l", "m", "n", "o", "p", "q", "r", "s", "t", "u", "v", "w", "x",
      "y", "z">>
ord(c) == CHOOSE i \in DOMAIN CodePoints : CodePoints[i] = c

UpperCase ==
    <<"A", "B", "C", "D", "E", "F", "G", "H", "I", "J", "K", "L", "M", "N", "O", "P",
      "Q", "R", "S", "T", "U", "V", "W", "X", "Y", "Z">>
LowerCase ==
    <<"a", "b", "c", "d", "e", "f", "g", "h", "i", "j", "k", "l", "m", "n", "o", "p",
      "q", "r", "s", "t", "u", "v", "w", "x", "y", "z">>
LowerChar(c) ==
    IF \E i \in DOMAIN UpperCase : UpperCase[i] = c
    THEN LowerCase[CHOOSE i \in DOMAIN UpperCase : UpperCase[i] = c]
    ELSE c
\* str.lower()
lower(s) == [i \in DOMAIN s |-> LowerChar(s[i])]

IsSpace(c) == c = " "
RECURSIVE lstrip(_)
lstrip(s) == IF s # <<>> /\ IsSpace(Head(s)) THEN lstrip(Tail(s)) ELSE s
RECURSIVE rstrip(_)
rstrip(s) == IF s # <<>> /\ IsSpace(s[Len(s)]) THEN rstrip(SubSeq(s, 1, Len(s) - 1)) ELSE s
\* str.strip()
strip(s) == rstrip(lstrip(s))

RECURSIVE SplitFrom(_, _, _)
\* the pieces of s from position i on, `piece` being the one under way
SplitFrom(s, i, piece) ==
    IF i > Len(s) THEN <<piece>>
    ELSE IF s[i] = "," THEN <<piece>> \o SplitFrom(s, i + 1, <<>>)
         ELSE SplitFrom(s, i + 1, Append(piece, s[i]))
\* str.split(',')
split(s) == SplitFrom(s, 1, <<>>)

RECURSIVE StrLess(_, _)
\* a < b for str: by code point, a proper prefix first
StrLess(a, b) ==
    IF b = <<>> THEN FALSE
    ELSE IF a = <<>> THEN TRUE
    ELSE IF Head(a) # Head(b) THEN ord(Head(a)) < ord(Head(b))
    ELSE StrLess(Tail(a), Tail(b))

RECURSIVE sorted(_)
\* sorted(set of str): ascending
sorted(S) ==
    IF S = {} THEN <<>>
    ELSE LET least == CHOOSE x \in S : \A y \in S : y = x \/ StrLess(x, y)
         IN <<least>> \o sorted(S \ {least})

RECURSIVE join(_)
\* ','.join(list of str)
join(l) ==
    IF l = <<>> THEN <<>>
    ELSE IF Len(l) = 1 THEN l[1]
    ELSE l[1] \o <<",">> \o join(Tail(l))

(***************************************************************************)
(* RuleValidator                                                           *)
(***************************************************************************)
\* set(MindatQueryDict.model_fields.keys()), what ValidationPipeline passes
valid_fields == {"ima", "hardness_min", "hardness_max", "crystal_system", "el_inc", "el_exc"}

mohs_scale_min == 1
mohs_scale_max == 10
valid_crystal_systems ==
    {"Amorphous", "Hexagonal", "Icosahedral", "Isometric", "Monoclinic",
     "Orthorhombic", "Tetragonal", "Triclinic", "Trigonal"}
search_fields == <<"ima", "hardness_min", "hardness_max", "crystal_system", "el_inc", "el_exc">>

\* _load_periodic_table()
valid_elements ==
    {<<"H">>, <<"L","i">>, <<"B","e">>, <<"B">>, <<"C">>, <<"N">>, <<"O">>, <<"F">>,
     <<"N","a">>, <<"M","g">>, <<"A","l">>, <<"S","i">>, <<"P">>, <<"S">>, <<"C","l">>,
     <<"K">>, <<"C","a">>, <<"S","c">>, <<"T","i">>, <<"V">>, <<"C","r">>, <<"M","n">>,
     <<"F","e">>, <<"C","o">>, <<"N","i">>, <<"C","u">>, <<"Z","n">>, <<"G","a">>,
     <<"G","e">>, <<"A","s">>, <<"S","e">>, <<"B","r">>, <<"R","b">>, <<"S","r">>,
     <<"Y">>, <<"Z","r">>, <<"N","b">>, <<"M","o">>, <<"R","u">>, <<"R","h">>,
     <<"P","d">>, <<"A","g">>, <<"C","d">>, <<"I","n">>, <<"S","n">>, <<"S","b">>,
     <<"T","e">>, <<"I">>, <<"C","s">>, <<"B","a">>, <<"L","a">>, <<"C","e">>,
     <<"P","r">>, <<"N","d">>, <<"S","m">>, <<"E","u">>, <<"G","d">>, <<"T","b">>,
     <<"D","y">>, <<"H","o">>, <<"E","r">>, <<"T","m">>, <<"Y","b">>, <<"L","u">>,
     <<"H","f">>, <<"T","a">>, <<"W">>, <<"R","e">>, <<"O","s">>, <<"I","r">>,
     <<"P","t">>, <<"A","u">>, <<"H","g">>, <<"T","l">>, <<"P","b">>, <<"B","i">>,
     <<"R","a">>, <<"T","h">>, <<"U">>, <<"[","]">>, <<"O","H">>, <<"H","2","O">>,
     <<"H","3","O">>, <<"B","O","3">>, <<"N","H","4">>, <<"N","H","2">>, <<"N","O","3">>,
     <<"C","O","3">>, <<"P","O","4">>, <<"S","O","4">>, <<"S","O","3">>,
     <<"A","s","O","4">>, <<"A","s","O","3">>, <<"V","O","4">>, <<"C","r","O","4">>,
     <<"S","e","O","4">>, <<"S","e","O","3">>, <<"M","o","O","4">>, <<"S","n","O","H">>,
     <<"S","b","O","4">>, <<"S","b","O","3">>, <<"T","e","O","4">>, <<"T","e","O","3">>,
     <<"I","O","3">>, <<"W","O","4">>, <<"U","O","2">>, <<"S","i","O","4">>,
     <<"S","i","O","3">>, <<"S","i","3","O","9">>, <<"C","H","3","C","O","O">>,
     <<"H","C","O","O">>, <<"C","2","O","4">>}

\* the truth value of a field's value: None, False, 0, '' and [] are false
Truthy(x) ==
    CASE x.t = "None" -> FALSE
      [] x.t = "bool" -> x.v
      [] x.t = "num" -> x.v # 0
      [] OTHER -> x.v # <<>>

\* the number a value compares as: a bool is the int 1 or 0
Number(x) == IF x.t = "bool" THEN (IF x.v THEN 1 ELSE 0) ELSE x.v
\* int <= x <= int is defined for numbers only
Comparable(x) == x.t \in {"num", "bool"}

\* _parse_elements: {e.strip() for e in element_str.split(',') if e.strip()}
_parse_elements(element_str) ==
    {strip(e) : e \in {p \in Range(split(element_str)) : strip(p) # <<>>}}

\* valid_elements_lower = {elem.lower() for elem in self.valid_elements}
valid_elements_lower == {lower(elem) : elem \in valid_elements}

\* element_lookup = {elem.lower(): elem for elem in self.valid_elements}
element_lookup ==
    [elem_lower \in valid_elements_lower |->
        CHOOSE elem \in valid_elements : lower(elem) = elem_lower]

\* the symbols in canonical case, but in the order and number given
_correct_element_case_Unsorted(element_str) ==
    LET given == SelectSeq([i \in DOMAIN split(element_str) |-> strip(split(element_str)[i])],
                           LAMBDA e : e # <<>>)
    IN join([i \in DOMAIN given |->
                 IF lower(given[i]) \in DOMAIN element_lookup
                 THEN element_lookup[lower(given[i])]
                 ELSE given[i]])

_correct_element_case(element_str) ==
    LET elements == _parse_elements(element_str)
        corrected == {IF lower(elem) \in DOMAIN element_lookup
                      THEN element_lookup[lower(elem)]
                      ELSE elem : elem \in elements}
    IN join(sorted(corrected))

\* (True, None), (False, msg), and a check that an exception leaves
Passed == [ok |-> TRUE, error |-> "None", exc |-> ""]
Failed(msg) == [ok |-> FALSE, error |-> msg, exc |-> ""]
Throws(e) == [ok |-> FALSE, error |-> "", exc |-> e]

rule_schema_validate(p) ==
    IF valid_fields = {} THEN Passed
    ELSE IF Keys(p) \ valid_fields # {} THEN Failed("Unexpected fields")
    ELSE Passed

rule_hardness_range_validate(p) ==
    LET hardness_min == Get(p, "hardness_min")
        hardness_max == Get(p, "hardness_max")
    IN IF hardness_min # None /\ ~Comparable(hardness_min)
       THEN Throws("TypeError")
       ELSE IF hardness_min # None
               /\ ~(mohs_scale_min <= Number(hardness_min)
                    /\ Number(hardness_min) <= mohs_scale_max)
       THEN Failed("hardness_min must be between 1 and 10")
       ELSE IF hardness_max # None /\ ~Comparable(hardness_max)
       THEN Throws("TypeError")
       ELSE IF hardness_max # None
               /\ ~(mohs_scale_min <= Number(hardness_max)
                    /\ Number(hardness_max) <= mohs_scale_max)
       THEN Failed("hardness_max must be between 1 and 10")
       ELSE IF hardness_min # None /\ hardness_max # None
               /\ Number(hardness_min) > Number(hardness_max)
       THEN Failed("hardness_min cannot exceed hardness_max")
       ELSE Passed

rule_crystal_system_validate(p) ==
    LET crystal_system == Get(p, "crystal_system")
    IN IF crystal_system = None THEN Passed
       ELSE IF crystal_system.t \in {"num", "bool"} THEN Throws("TypeError")
       ELSE IF Range(crystal_system.v) \ valid_crystal_systems # {}
       THEN Failed("Invalid crystal systems")
       ELSE Passed

\* the lowered tokens of an element string that no lowered symbol equals
InvalidElements(element_str) ==
    LET elements_lower == {lower(elem) : elem \in _parse_elements(element_str)}
    IN elements_lower \ valid_elements_lower

rule_chemical_element_validate(p) ==
    LET el_inc == Get(p, "el_inc")
        el_exc == Get(p, "el_exc")
    IN IF Truthy(el_inc) /\ el_inc.t # "str" THEN Throws("AttributeError")
       ELSE IF Truthy(el_inc) /\ InvalidElements(el_inc.v) # {}
       THEN Failed("Invalid elements in el_inc")
       ELSE IF Truthy(el_exc) /\ el_exc.t # "str" THEN Throws("AttributeError")
       ELSE IF Truthy(el_exc) /\ InvalidElements(el_exc.v) # {}
       THEN Failed("Invalid elements in el_exc")
       ELSE Passed

\* the conflict check, were the pieces compared as written
rule_element_conflict_validate_Untrimmed(p) ==
    LET el_inc == Get(p, "el_inc")
        el_exc == Get(p, "el_exc")
    IN IF ~Truthy(el_inc) \/ ~Truthy(el_exc) THEN Passed
       ELSE IF el_inc.t # "str" \/ el_exc.t # "str" THEN Throws("AttributeError")
       ELSE IF Range(split(el_inc.v)) \cap Range(split(el_exc.v)) # {}
       THEN Failed("Elements cannot be both included and excluded")
       ELSE Passed

rule_element_conflict_validate(p) ==
    LET el_inc == Get(p, "el_inc")
        el_exc == Get(p, "el_exc")
    IN IF ~Truthy(el_inc) \/ ~Truthy(el_exc) THEN Passed
       ELSE IF el_inc.t # "str" \/ el_exc.t # "str" THEN Throws("AttributeError")
       ELSE IF _parse_elements(el_inc.v) \cap _parse_elements(el_exc.v) # {}
       THEN Failed("Elements cannot be both included and excluded")
       ELSE Passed

rule_completeness_validate(p) ==
    IF \E i \in DOMAIN search_fields : Get(p, search_fields[i]) # None
    THEN Passed
    ELSE Failed("At least one search criterion must be specified")

\* self.validators: the registered checks, in registration order
validators ==
    <<"rule_schema", "rule_hardness_range", "rule_crystal_system",
      "rule_chemical_element", "rule_element_conflict", "rule_completeness">>

\* self.validators[name](params)
Validate(name, p) ==
    CASE name = "rule_schema" -> rule_schema_validate(p)
      [] name = "rule_hardness_range" -> rule_hardness_range_validate(p)
      [] name = "rule_crystal_system" -> rule_crystal_system_validate(p)
      [] name = "rule_chemical_element" -> rule_chemical_element_validate(p)
      [] name = "rule_element_conflict" -> rule_element_conflict_validate(p)
      [] name = "rule_completeness" -> rule_completeness_validate(p)

\* corrected[field] = value, for a key the dict has
SetItem(d, k, value) == [i \in DOMAIN d |-> IF d[i][1] = k THEN <<k, value>> ELSE d[i]]

CorrectField(d, field) ==
    IF Truthy(Get(d, field))
    THEN SetItem(d, field, Str(_correct_element_case(Get(d, field).v)))
    ELSE d

\* the correction, were each field's corrected string stored under the other
apply_corrections_Swapped(p) ==
    LET el_inc == Get(p, "el_inc")
        el_exc == Get(p, "el_exc")
    IN IF Truthy(el_inc) /\ Truthy(el_exc)
       THEN SetItem(SetItem(p, "el_inc", Str(_correct_element_case(el_exc.v))),
                    "el_exc", Str(_correct_element_case(el_inc.v)))
       ELSE CorrectField(CorrectField(p, "el_inc"), "el_exc")

\* corrected = params.copy(); for field in ['el_inc', 'el_exc']: ...
apply_corrections(p) == CorrectField(CorrectField(p, "el_inc"), "el_exc")

\* apply_corrections, were it to write into the dict it is handed
ApplyCorrectionsCall_InPlace(p) ==
    [params |-> apply_corrections(p), corrected |-> apply_corrections(p)]

\* The two dicts after apply_corrections(p): the caller's, which
\* params.copy() leaves alone, and the copy the fields were written into.
ApplyCorrectionsCall(p) ==
    [params |-> p, corrected |-> apply_corrections(p)]

RECURSIVE RunValidators_ShortCircuit(_, _, _)
\* the loop, were it to stop at the first check that fails
RunValidators_ShortCircuit(p, i, issues) ==
    IF i > Len(validators) THEN issues
    ELSE LET r == Validate(validators[i], p)
         IN IF ~r.ok THEN Append(issues, <<validators[i], Text(r.error)>>)
            ELSE RunValidators_ShortCircuit(p, i + 1, issues)

RECURSIVE RunValidators(_, _, _)
\* for name in self.validators, from the i-th on: issues[name] = error
RunValidators(p, i, issues) ==
    IF i > Len(validators) THEN issues
    ELSE LET r == Validate(validators[i], p)
         IN RunValidators(p, i + 1,
                          IF ~r.ok THEN Append(issues, <<validators[i], Text(r.error)>>)
                          ELSE issues)

RECURSIVE RaisedFrom(_, _)
\* the exception that leaves the loop over self.validators from the i-th
\* check on ("" = none): that of the first check that raises
RaisedFrom(p, i) ==
    IF i > Len(validators) THEN ""
    ELSE IF Validate(validators[i], p).exc # "" THEN Validate(validators[i], p).exc
    ELSE RaisedFrom(p, i + 1)

\* the exception that leaves run_validation(p); no check catches any
RaisedBy(p) == RaisedFrom(p, 1)

\* run_validation(p), when no exception leaves it
run_validation(p) ==
    LET issues == RunValidators(p, 1, <<>>)
    IN IF Len(issues) = 0
       THEN << <<"status", Text("valid")>>,
               <<"corrected_params", Dict(apply_corrections(p))>> >>
       ELSE << <<"status", Text("invalid")>>, <<"issues", Dict(issues)>> >>

\* the caller's dict after run_validation(p): the checks only read it, and
\* apply_corrections is handed it when no check failed
ParamsAfterRunValidation(p) ==
    IF RaisedBy(p) = "" /\ Len(RunValidators(p, 1, <<>>)) = 0
    THEN ApplyCorrectionsCall(p).params
    ELSE p

(***************************************************************************)
(* RuleValidator.run_validation applied to one record                      *)
(***************************************************************************)
\* most comma-separated pieces of an el_inc / el_exc given to the validator
MaxIncTokens == 2
MaxExcTokens == 1

\* the pieces the element strings are built from: a symbol in lower and in
\* canonical case, a second symbol bare and with surrounding blanks, a third
\* symbol, a piece that is no symbol, and a blank piece
Pieces ==
    {<<"f", "e">>, <<"F", "e">>, <<"c", "u">>, <<" ", "c", "u", " ">>,
     <<"s">>, <<"X">>, <<" ">>}

ElementStrings(n) == {join(l) : l \in UNION {[1..k -> Pieces] : k \in 0..n}}
ElementValues(n) == {None} \cup {Str(e) : e \in ElementStrings(n)}
HardnessValues == {None} \cup {Num(h) : h \in {0, 1, 10, 11}}
CrystalValues == {None, List(<<"Hexagonal">>), List(<<"Hexagonal", "Cubic">>)}
ImaValues == {None, Bool(TRUE)}

\* records that vary the element strings
ElementRecords ==
    {model_dump(MindatQueryDict(None, h[1], h[2], None, inc, exc)) :
        h \in {<<None, None>>, <<Num(10), Num(1)>>},
        inc \in ElementValues(MaxIncTokens), exc \in ElementValues(MaxExcTokens)}

\* records that vary the other fields, also with a key that is no field
ScalarRecords ==
    LET base == {model_dump(MindatQueryDict(ima, hmin, hmax, cs, e[1], e[2])) :
                    ima \in ImaValues, hmin \in HardnessValues, hmax \in HardnessValues,
                    cs \in CrystalValues,
                    e \in {<<None, None>>, <<Str(<<"f", "e">>), Str(<<"F", "e">>)>>}}
    IN base \cup {Append(d, <<"expand", None>>) : d \in base} \cup {<<>>}

ParamSpace == ElementRecords \cup ScalarRecords

InitRule ==
    /\ params \in ParamSpace
    /\ rule_result = Unset
    /\ num_generations = 1
    /\ pc = "rule"
    /\ attempt = 0
    /\ tasks = [i \in TaskIds |-> NoTask]
    /\ results = <<>>
    /\ ret = <<>>
    /\ raised = ""
    /\ oracle_called = FALSE
    /\ oracle_calls = 0
    /\ own = [i \in TaskIds |-> NoReply]
    /\ calls = <<>>
    /\ rounds = 0
    /\ consensus = Unset
    /\ NoPipeline
    /\ NoSchema

\* rule_result = self.rule_validator.run_validation(params)
RunValidation ==
    /\ pc = "rule"
    /\ rule_result = Unset
    /\ IF RaisedBy(params) # ""
       THEN /\ raised' = RaisedBy(params)
            /\ pc' = "raised"
            /\ UNCHANGED rule_result
       ELSE /\ rule_result' = Dict(run_validation(params))
            /\ UNCHANGED <<pc, raised>>
    /\ params' = ParamsAfterRunValidation(params)
    /\ UNCHANGED NotRule

NextRule == RunValidation

SpecRule == InitRule /\ [][NextRule]_vars

(***************************************************************************)
(* RuleValidator.run_validation applied to a record of any field types     *)
(***************************************************************************)
\* values a caller's dict may hold for a hardness bound
AnyHardness == {None, Num(5), Bool(TRUE), Str(<<"5">>), List(<<"5">>)}
\* ... for crystal_system: also a number, a bool and a bare str
AnyCrystal == {None, List(<<"Hexagonal">>), Num(5), Bool(FALSE), Str(<<"H", "e", "x">>)}
\* ... for el_inc / el_exc: also numbers, bools and lists, true and false ones
AnyElements ==
    {None, Str(<<"f", "e">>), Num(0), Num(26), Bool(FALSE), List(<<>>), List(<<"Fe">>)}

AnyTypeSpace ==
    {model_dump(MindatQueryDict(Bool(TRUE), hmin, hmax, cs, inc, exc)) :
        hmin \in AnyHardness, hmax \in AnyHardness, cs \in AnyCrystal,
        inc \in AnyElements, exc \in AnyElements}

InitAnyType ==
    /\ params \in AnyTypeSpace
    /\ rule_result = Unset
    /\ num_generations = 1
    /\ pc = "rule"
    /\ attempt = 0
    /\ tasks = [i \in TaskIds |-> NoTask]
    /\ results = <<>>
    /\ ret = <<>>
    /\ raised = ""
    /\ oracle_called = FALSE
    /\ oracle_calls = 0
    /\ own = [i \in TaskIds |-> NoReply]
    /\ calls = <<>>
    /\ rounds = 0
    /\ consensus = Unset
    /\ NoPipeline
    /\ NoSchema

NextAnyType == RunValidation

SpecAnyType == InitAnyType /\ [][NextAnyType]_vars

(***************************************************************************)
(* RuleValidator.apply_corrections applied to its own result               *)
(***************************************************************************)
\* most applications of apply_corrections in a row
MaxCorrections == 2

InitCorrect ==
    /\ params \in ParamSpace
    /\ rule_result = Unset
    /\ num_generations = 1
    /\ pc = "correct"
    /\ attempt = 0
    /\ tasks = [i \in TaskIds |-> NoTask]
    /\ results = <<>>
    /\ ret = <<>>
    /\ raised = ""
    /\ oracle_called = FALSE
    /\ oracle_calls = 0
    /\ own = [i \in TaskIds |-> NoReply]
    /\ calls = <<>>
    /\ rounds = 0
    /\ consensus = Unset
    /\ NoPipeline
    /\ NoSchema

\* apply_corrections(params) first, then apply_corrections of the last result
ApplyCorrections ==
    /\ pc = "correct"
    /\ Len(corrections) < MaxCorrections
    /\ LET call == ApplyCorrectionsCall(IF corrections = <<>> THEN params
                                        ELSE corrections[Len(corrections)])
       IN IF corrections = <<>>
          THEN /\ params' = call.params
               /\ corrections' = <<call.corrected>>
          ELSE /\ params' = params
               /\ corrections' = Append([corrections EXCEPT ![Len(corrections)] = call.params],
                                        call.corrected)
    /\ UNCHANGED <<rule_result, pc, raised>>
    /\ UNCHANGED <<num_generations, attempt, tasks, results, ret, oracle_called, oracle_calls, own,
                   calls, rounds, consensus>>
    /\ UNCHANGED <<original_query, endpoint, llm, endpoint_docs, semantic_calls,
                   semantic_prompts, semantic_reply, model_result, validate_ret>>
    /\ UNCHANGED SchemaVars

NextCorrect == ApplyCorrections

SpecCorrect == InitCorrect /\ [][NextCorrect]_vars

(***************************************************************************)
(* MindatAPISchemaManager.get_params_info                                  *)
(***************************************************************************)
\* dict.get(k, default)
GetOr(d, k, default) == IF HasKey(d, k) THEN Get(d, k) ELSE default

\* endpoint_docs[param_name] = {'name': ..., 'description': ..., 'schema': ...}
ParamDoc(param_name) ==
    Dict(<< <<"name", Text(param_name)>>,
            <<"description", Text(<<"description of ", param_name>>)>>,
            <<"schema", Dict(<<>>)>> >>)

\* the documentation of an endpoint that has the parameters `names`
DocsOf(names) == [i \in DOMAIN names |-> <<names[i], ParamDoc(names[i])>>]

\* what get_geomaterials_endpoint may yield: {} when the schema could not
\* be loaded, else the docs of the endpoint's parameters; one schema lacks
\* the ima parameter
EndpointDocs ==
    {<<>>,
     DocsOf(<<"crystal_system", "el_exc", "el_inc", "expand", "hardness_max",
              "hardness_min", "ima">>),
     DocsOf(<<"crystal_system", "el_exc", "el_inc", "expand", "hardness_max",
              "hardness_min">>)}

\* get_params_info, were it to hand out the whole documentation
get_params_info_Whole(param_names, ep, geomaterials_docs) ==
    IF ep = "/v1/geomaterials/" THEN geomaterials_docs ELSE <<>>

\* {name: endpoint_docs[name] for name in param_names if name in endpoint_docs}
get_params_info(param_names, ep, geomaterials_docs) ==
    LET docs == IF ep = "/v1/geomaterials/" THEN geomaterials_docs ELSE <<>>
        found == SelectSeq(param_names, LAMBDA name : HasKey(docs, name))
    IN [i \in DOMAIN found |-> <<found[i], Get(docs, found[i])>>]

\* list(params.keys())
KeyList(d) == [i \in DOMAIN d |-> d[i][1]]

(***************************************************************************)
(* ModelValidator                                                          *)
(***************************************************************************)
\* an llm object, as opposed to None
Llm == [t |-> "llm"]

\* self.llm.with_structured_output on an llm that is None
NoneTypeError ==
    [type |-> "AttributeError",
     msg |-> "'NoneType' object has no attribute 'with_structured_output'"]

\* IntentHallucinationValidationOutput
ValidationOutput(status, issues) == [status |-> status, issues |-> issues]

\* issues the semantic oracle may list: none, an empty mapping, one on a
\* parameter, a general one, one on a name that is no parameter (a reason,
\* like every text that is put together, is the sequence of its pieces)
OracleIssues ==
    {None, Dict(<<>>),
     Dict(<< <<"el_inc", <<"not asked for">> >> >>),
     Dict(<< <<"_error", <<"cannot judge">> >> >>),
     Dict(<< <<"color", <<"not supported">> >> >>)}

\* how a call of the semantic oracle may end
SemanticReplies ==
    {Returned(ValidationOutput(st, is)) :
        st \in {"valid", "invalid", "uncertain"}, is \in OracleIssues}
    \cup {Raised(TimeoutError), Raised(RateLimitError)}

\* {"value": ..., "reason": ..., "api_doc": ...}
IssueEntry(value, reason, api_doc) ==
    Dict(<< <<"value", value>>, <<"reason", Text(reason)>>, <<"api_doc", api_doc>> >>)

\* the except branch, were it to approve
ValidationErrorResult_Approve(e) ==
    [status |-> "valid", issues |-> None]

\* except Exception as e: return "invalid", {"_error": {...}}
ValidationErrorResult(e) ==
    [status |-> "invalid",
     issues |-> Dict(<< <<"_error",
                          IssueEntry(None, <<"Validation error: ", e.msg>>, Dict(<<>>))>> >>)]

\* model_intent_hallucination_validate, given how the oracle call ends
model_intent_hallucination_validate(p, query, api_docs, reply) ==
    IF reply.kind = "raise" THEN ValidationErrorResult(reply.v)
    ELSE IF reply.v.status = "valid" THEN [status |-> "valid", issues |-> None]
    ELSE LET llm_issues == IF reply.v.issues = None \/ reply.v.issues.v = <<>>
                           THEN <<>> ELSE reply.v.issues.v
             structured_issues ==
                 [i \in DOMAIN llm_issues |->
                     IF llm_issues[i][1] = "_error"
                     THEN <<"_error", IssueEntry(None, llm_issues[i][2], Dict(<<>>))>>
                     ELSE <<llm_issues[i][1],
                            IssueEntry(Get(p, llm_issues[i][1]), llm_issues[i][2],
                                       GetOr(api_docs, llm_issues[i][1], Dict(<<>>)))>>]
         IN [status |-> reply.v.status, issues |-> Dict(structured_issues)]

\* ModelValidator.run_validation, given how the oracle call ends
model_run_validation(p, query, ep, geomaterials_docs, reply) ==
    LET api_docs == get_params_info(KeyList(p), ep, geomaterials_docs)
        out == model_intent_hallucination_validate(p, query, api_docs, reply)
        result == << <<"status", Text(out.status)>> >>
    IN IF out.issues # None /\ out.issues.v # <<>>
       THEN Append(result, <<"issues", out.issues>>)
       ELSE result

(***************************************************************************)
(* ValidationPipeline.validate                                             *)
(***************************************************************************)
\* the truth value of self.model_validator: __init__ always stores a
\* ModelValidator instance, which defines neither __bool__ nor __len__
model_validator_truthy == TRUE

\* the early return, were it never taken
RuleFailed_Never(rr) == FALSE

\* if rule_result["status"] != "valid"
RuleFailed(rr) == Get(rr, "status") # Text("valid")

\* the semantic layer's input, were it the raw params
CorrectedParams_Raw(rr, p) == p

\* corrected_params = rule_result.get("corrected_params", params)
CorrectedParams(rr, p) ==
    IF HasKey(rr, "corrected_params") THEN Get(rr, "corrected_params").v ELSE p

\* the model result, were it returned as the semantic layer made it
MergeCorrected_Skip(mr, corrected_params) == mr

\* if "corrected_params" not in model_result: model_result[...] = corrected_params
MergeCorrected(mr, corrected_params) ==
    IF HasKey(mr, "corrected_params") THEN mr
    ELSE Append(mr, <<"corrected_params", Dict(corrected_params)>>)

\* if self.model_validator and original_query
RunsModelValidation(query) == model_validator_truthy /\ query # ""

\* records given to validate: valid ones that the correction changes or
\* leaves alone, invalid ones, and one with a value of an unexpected type
PipelineParams ==
    {model_dump(MindatQueryDict(Bool(TRUE), None, None, None,
                                Str(<<"f", "e", ",", "c", "u">>), Str(<<"s">>))),
     model_dump(RespIma),
     model_dump(MindatQueryDict(None, None, None, None, Str(<<"f", "e">>), Str(<<"F", "e">>))),
     model_dump(MindatQueryDict(Bool(TRUE), Num(10), Num(1), None, None, None)),
     model_dump(MindatQueryDict(Bool(TRUE), None, None, None, Str(<<"X">>), None)),
     <<>>,
     model_dump(MindatQueryDict(Bool(TRUE), None, None, None, Num(26), None))}

InitPipeline ==
    /\ params \in PipelineParams
    /\ original_query \in {"", "minerals with iron and copper, no sulfur"}
    /\ endpoint \in {"/v1/geomaterials/", "/v1/localities/"}
    /\ llm \in {None, Llm}
    /\ endpoint_docs \in EndpointDocs
    /\ pc = "rule_check"
    /\ rule_result = Unset
    /\ corrections = <<>>
    /\ semantic_calls = <<>>
    /\ semantic_prompts = <<>>
    /\ semantic_reply = NoReply
    /\ model_result = Unset
    /\ validate_ret = Unset
    /\ num_generations = 1
    /\ attempt = 0
    /\ tasks = [i \in TaskIds |-> NoTask]
    /\ results = <<>>
    /\ ret = <<>>
    /\ raised = ""
    /\ oracle_called = FALSE
    /\ oracle_calls = 0
    /\ own = [i \in TaskIds |-> NoReply]
    /\ calls = <<>>
    /\ rounds = 0
    /\ consensus = Unset
    /\ NoSchema

\* validate, from its call to its return or to the await of the oracle call
ValidateCall ==
    /\ pc = "rule_check"
    /\ IF RaisedBy(params) # ""
       THEN /\ raised' = RaisedBy(params)
            /\ pc' = "raised"
            /\ UNCHANGED <<rule_result, semantic_calls, semantic_prompts, semantic_reply,
                           model_result, validate_ret>>
       ELSE LET rr == run_validation(params)
                corrected_params == CorrectedParams(rr, params)
                api_docs == get_params_info(KeyList(corrected_params), endpoint,
                                            endpoint_docs)
            IN /\ rule_result' = Dict(rr)
               /\ raised' = raised
               /\ IF RuleFailed(rr) \/ ~RunsModelValidation(original_query)
                  THEN /\ validate_ret' = Dict(rr)
                       /\ pc' = "done"
                       /\ UNCHANGED <<semantic_calls, semantic_prompts, semantic_reply,
                                      model_result>>
                  ELSE /\ semantic_calls' =
                              Append(semantic_calls,
                                     [params |-> corrected_params,
                                      original_query |-> original_query,
                                      endpoint |-> endpoint])
                       /\ IF llm = None
                          THEN LET mr == model_run_validation(corrected_params,
                                             original_query, endpoint, endpoint_docs,
                                             Raised(NoneTypeError))
                               IN /\ semantic_reply' = Raised(NoneTypeError)
                                  /\ model_result' = Dict(mr)
                                  /\ validate_ret' = Dict(MergeCorrected(mr, corrected_params))
                                  /\ pc' = "done"
                                  /\ UNCHANGED semantic_prompts
                          ELSE /\ semantic_prompts' =
                                      Append(semantic_prompts,
                                             [original_query |-> original_query,
                                              params |-> corrected_params,
                                              api_docs |-> api_docs])
                               /\ pc' = "semantic_check"
                               /\ UNCHANGED <<semantic_reply, model_result, validate_ret>>
    /\ params' = ParamsAfterRunValidation(params)
    /\ UNCHANGED <<corrections, original_query, endpoint, llm, endpoint_docs>>
    /\ UNCHANGED <<num_generations, attempt, tasks, results, ret, oracle_called, oracle_calls, own,
                   calls, rounds, consensus>>
    /\ UNCHANGED SchemaVars

\* the oracle call of the semantic layer ends, and validate returns
SemanticReply(reply) ==
    /\ pc = "semantic_check"
    /\ LET call == semantic_calls[Len(semantic_calls)]
           mr == model_run_validation(call.params, call.original_query, call.endpoint,
                                      endpoint_docs, reply)
       IN /\ model_result' = Dict(mr)
          /\ validate_ret' = Dict(MergeCorrected(mr, CorrectedParams(rule_result.v, params)))
    /\ semantic_reply' = reply
    /\ pc' = "done"
    /\ UNCHANGED <<params, rule_result, raised, corrections, original_query, endpoint,
                   llm, endpoint_docs, semantic_calls, semantic_prompts>>
    /\ UNCHANGED <<num_generations, attempt, tasks, results, ret, oracle_called, oracle_calls, own,
                   calls, rounds, consensus>>
    /\ UNCHANGED SchemaVars

NextPipeline ==
    \/ ValidateCall
    \/ \E reply \in SemanticReplies : SemanticReply(reply)

SpecPipeline == InitPipeline /\ [][NextPipeline]_vars

(***************************************************************************)
(* MindatAPISchemaManager: the schema file, its loading and the cache      *)
(***************************************************************************)
\* endpoint_path = '/v1/geomaterials/'
endpoint_path == "/v1/geomaterials/"

\* an entry of paths[endpoint_path]['get']['parameters']
Parameter(name, schema) ==
    [name |-> name, description |-> Text(<<"description of ", name>>), schema |-> schema]

\* the parameters the schema document lists for the endpoint: schemas with
\* a type, one with typed items, and an entry that has no name
SchemaParameters ==
    << Parameter("ima", << <<"type", Text("boolean")>> >>),
       Parameter("crystal_system",
                 << <<"type", Text("array")>>,
                    <<"items", Dict(<< <<"type", Text("string")>>,
                                       <<"enum", List(<<"Amorphous", "Hexagonal">>)>> >>)>> >>),
       Parameter("", << <<"type", Text("string")>> >>),
       Parameter("el_inc", << <<"type", Text("string")>>,
                              <<"description", Text("elements to include")>> >>) >>

\* yaml.safe_load of the schema document
GoodSchema == [t |-> "schema", parameters |-> SchemaParameters]

\* yaml.safe_load of a file that holds one plain scalar: a str
ScalarDocument == [t |-> "scalar"]

\* yaml.safe_load(f) of a file that parses: the schema document, a str for
\* a file of plain text, None for an empty file
safe_load(file) ==
    CASE file = "good" -> GoodSchema
      [] file = "scalar" -> ScalarDocument
      [] OTHER -> None

\* self.schema_data.get(...) is defined: the value is a mapping
IsMapping(schema_data) == schema_data.t = "schema"

\* {k: v for k, v in schema.items() if k != 'type'}
DropType(d) == SelectSeq(d, LAMBDA kv : kv[1] # "type")

\* filtered_schema, with 'type' removed from nested items too
FilteredSchema(schema) ==
    LET filtered == DropType(schema)
    IN [i \in DOMAIN filtered |->
           IF filtered[i][1] = "items" /\ filtered[i][2].t = "dict"
           THEN <<"items", Dict(DropType(filtered[i][2].v))>>
           ELSE filtered[i]]

\* endpoint_docs: name, description and filtered schema of each named parameter
ExtractDocs(parameters) ==
    LET named == SelectSeq(parameters, LAMBDA param : param.name # "")
    IN [i \in DOMAIN named |->
           <<named[i].name,
             Dict(<< <<"name", Text(named[i].name)>>,
                     <<"description", named[i].description>>,
                     <<"schema", Dict(FilteredSchema(named[i].schema))>> >>)>>]

\* the cache write, were it to add to the entry the cache has
CacheWrite_Extend(cache, docs) ==
    IF HasKey(cache, endpoint_path)
    THEN SetItem(cache, endpoint_path, Dict(Get(cache, endpoint_path).v \o docs))
    ELSE Append(cache, <<endpoint_path, Dict(docs)>>)

\* self.endpoints_cache[endpoint_path] = endpoint_docs
CacheWrite(cache, docs) ==
    IF HasKey(cache, endpoint_path)
    THEN SetItem(cache, endpoint_path, Dict(docs))
    ELSE Append(cache, <<endpoint_path, Dict(docs)>>)

\* The operations below take and give a record w: the file and the network,
\* the instance m with its schema_data and endpoints_cache, the history,
\* the value the operation returns and the exception that leaves it ("" =
\* none).
World(file, net, m, mgr, log) ==
    [file |-> file, net |-> net, m |-> m, schema_data |-> mgr.schema_data,
     endpoints_cache |-> mgr.endpoints_cache, log |-> log, ret |-> FALSE, raised |-> ""]

\* an entry of the history: what was done, through which instance
Event(ev, m) == [ev |-> ev, m |-> m]

\* download_schema: the file is written when the request succeeds
download_schema(w) ==
    IF w.net = "up"
    THEN [w EXCEPT !.file = "good", !.log = Append(@, Event("download", w.m)), !.ret = TRUE]
    ELSE [w EXCEPT !.log = Append(@, Event("download failed", w.m)), !.ret = FALSE]

\* load_schema, were it without its try/except
load_schema_Uncaught(w) ==
    LET w1 == IF w.file = "missing" THEN download_schema(w) ELSE w
    IN IF w.file = "missing" /\ ~w1.ret THEN [w1 EXCEPT !.ret = FALSE]
       ELSE IF w1.file = "unparsable"
       THEN [w1 EXCEPT !.log = Append(@, Event("load failed", w.m)), !.ret = FALSE,
                       !.raised = "YAMLError"]
       ELSE [w1 EXCEPT !.schema_data = safe_load(w1.file),
                       !.log = Append(@, Event("load", w.m)), !.ret = TRUE]

\* load_schema: a missing file is downloaded first; an unparsable file
\* raises inside the try; an empty file parses to None, plain text to a str
load_schema(w) ==
    LET w1 == IF w.file = "missing" THEN download_schema(w) ELSE w
    IN IF w.file = "missing" /\ ~w1.ret THEN [w1 EXCEPT !.ret = FALSE]
       ELSE IF w1.file = "unparsable"
       THEN [w1 EXCEPT !.log = Append(@, Event("load failed", w.m)), !.ret = FALSE]
       ELSE [w1 EXCEPT !.schema_data = safe_load(w1.file),
                       !.log = Append(@, Event("load", w.m)), !.ret = TRUE]

\* get_geomaterials_endpoint
get_geomaterials_endpoint(w) ==
    IF HasKey(w.endpoints_cache, endpoint_path)
    THEN [w EXCEPT !.ret = Get(w.endpoints_cache, endpoint_path).v]
    ELSE LET w1 == IF w.schema_data = None THEN load_schema(w) ELSE w
         IN IF w.schema_data = None /\ ~w1.ret THEN [w1 EXCEPT !.ret = <<>>]
            ELSE IF ~IsMapping(w1.schema_data)
            THEN [w1 EXCEPT !.log = Append(@, Event("extract failed", w.m)), !.ret = <<>>]
            ELSE LET endpoint_docs_ == ExtractDocs(w1.schema_data.parameters)
                 IN [w1 EXCEPT !.endpoints_cache = CacheWrite(@, endpoint_docs_),
                               !.log = Append(Append(@, Event("extract", w.m)), Event("cache", w.m)),
                               !.ret = endpoint_docs_]

\* MindatAPISchemaManager.get_params_info on an instance
ParamsInfoCall(w, param_names, ep) ==
    LET w1 == IF ep = endpoint_path THEN get_geomaterials_endpoint(w)
              ELSE [w EXCEPT !.ret = <<>>]
    IN [w1 EXCEPT !.ret = get_params_info(param_names, ep, w1.ret)]

\* ModelValidator._ensure_schema_loaded
_ensure_schema_loaded(w) ==
    LET w1 == IF w.file = "missing" THEN download_schema(w) ELSE w
    IN get_geomaterials_endpoint(load_schema(w1))

\* the lists of names get_params_info is asked for
NameLists == {<<"ima", "el_inc">>, <<"el_inc", "color">>}

InitSchema ==
    /\ schema_file \in {"good", "missing", "unparsable", "empty", "scalar"}
    /\ network \in {"up", "down"}
    /\ managers = [m \in ManagerIds |-> NoManager]
    /\ callers = [c \in CallIds |-> NoCall]
    /\ schema_log = <<>>
    /\ pc = "schema"
    /\ num_generations = 1
    /\ attempt = 0
    /\ tasks = [i \in TaskIds |-> NoTask]
    /\ results = <<>>
    /\ ret = <<>>
    /\ raised = ""
    /\ oracle_called = FALSE
    /\ oracle_calls = 0
    /\ own = [i \in TaskIds |-> NoReply]
    /\ calls = <<>>
    /\ rounds = 0
    /\ consensus = Unset
    /\ params = <<>>
    /\ rule_result = Unset
    /\ NoPipeline

\* the variables the schema registry does not touch
NotSchema == <<num_generations, pc, attempt, tasks, results, ret, oracle_called, oracle_calls,
               own, calls, rounds, consensus, params, rule_result, PipelineVars>>

\* ModelValidator(llm): a new MindatAPISchemaManager, then _ensure_schema_loaded
MakeManager(m) ==
    /\ pc = "schema"
    /\ ~managers[m].made
    /\ \A n \in ManagerIds : n < m => managers[n].made
    /\ LET w == _ensure_schema_loaded(World(schema_file, network, m, NoManager, schema_log))
       IN /\ managers' = [managers EXCEPT ![m] =
                              [made |-> TRUE, schema_data |-> w.schema_data,
                               endpoints_cache |-> w.endpoints_cache]]
          /\ schema_file' = w.file
          /\ schema_log' = w.log
          /\ raised' = IF raised = "" THEN w.raised ELSE raised
    /\ UNCHANGED <<network, callers>>
    /\ UNCHANGED NotSchema

\* schema_manager.get_params_info(param_names, endpoint) on instance m
GetParamsInfo(c, m, param_names, ep) ==
    /\ pc = "schema"
    /\ callers[c] = NoCall
    /\ \A b \in CallIds : b < c => callers[b] # NoCall
    /\ managers[m].made
    /\ LET w == ParamsInfoCall(World(schema_file, network, m, managers[m], schema_log),
                               param_names, ep)
       IN /\ managers' = [managers EXCEPT ![m].schema_data = w.schema_data,
                                          ![m].endpoints_cache = w.endpoints_cache]
          /\ schema_file' = w.file
          /\ schema_log' = Append(w.log, Event("return", m))
          /\ callers' = [callers EXCEPT ![c] =
                             [st |-> "done", m |-> m, param_names |-> param_names,
                              endpoint |-> ep, ret |-> w.ret,
                              file |-> schema_file, net |-> network,
                              cached |-> HasKey(managers[m].endpoints_cache, ep)]]
          /\ raised' = IF raised = "" THEN w.raised ELSE raised
    /\ UNCHANGED network
    /\ UNCHANGED NotSchema

\* the schema server becomes reachable
NetworkRecovers ==
    /\ pc \in {"schema", "race"}
    /\ network = "down"
    /\ network' = "up"
    /\ UNCHANGED <<schema_file, managers, callers, schema_log, raised>>
    /\ UNCHANGED NotSchema

\* a file that cannot be used is replaced by the schema document
FileRepaired ==
    /\ pc \in {"schema", "race"}
    /\ schema_file \in {"unparsable", "empty", "scalar"}
    /\ schema_file' = "good"
    /\ UNCHANGED <<network, managers, callers, schema_log, raised>>
    /\ UNCHANGED NotSchema

NextSchema ==
    \/ \E m \in ManagerIds : MakeManager(m)
    \/ \E c \in CallIds, m \in ManagerIds, names \in NameLists,
          ep \in {endpoint_path, "/v1/localities/"} : GetParamsInfo(c, m, names, ep)
    \/ NetworkRecovers
    \/ FileRepaired

SpecSchema == InitSchema /\ [][NextSchema]_vars

(***************************************************************************)
(* get_geomaterials_endpoint called by several threads on one instance     *)
(***************************************************************************)
\* a call that has not yet tested the cache
NewCall == [st |-> "check", docs |-> <<>>, ret |-> <<>>, wrote |-> FALSE]

InitRace ==
    /\ schema_file \in {"good", "missing", "unparsable", "empty", "scalar"}
    /\ network \in {"up", "down"}
    /\ managers = [m \in ManagerIds |->
                       IF m = 1 THEN [NoManager EXCEPT !.made = TRUE] ELSE NoManager]
    /\ callers = [c \in CallIds |-> NewCall]
    /\ schema_log = <<>>
    /\ pc = "race"
    /\ num_generations = 1
    /\ attempt = 0
    /\ tasks = [i \in TaskIds |-> NoTask]
    /\ results = <<>>
    /\ ret = <<>>
    /\ raised = ""
    /\ oracle_called = FALSE
    /\ oracle_calls = 0
    /\ own = [i \in TaskIds |-> NoReply]
    /\ calls = <<>>
    /\ rounds = 0
    /\ consensus = Unset
    /\ params = <<>>
    /\ rule_result = Unset
    /\ NoPipeline

\* if endpoint_path in self.endpoints_cache: return the entry
RaceCheck(c) ==
    /\ pc = "race"
    /\ callers[c].st = "check"
    /\ callers' = [callers EXCEPT ![c] =
                       IF HasKey(managers[1].endpoints_cache, endpoint_path)
                       THEN [@ EXCEPT !.st = "done",
                                      !.ret = Get(managers[1].endpoints_cache, endpoint_path).v]
                       ELSE [@ EXCEPT !.st = "guard"]]
    /\ UNCHANGED <<schema_file, network, managers, schema_log, raised>>
    /\ UNCHANGED NotSchema

\* if self.schema_data is None:
RaceGuard(c) ==
    /\ pc = "race"
    /\ callers[c].st = "guard"
    /\ callers' = [callers EXCEPT ![c].st =
                       IF managers[1].schema_data = None THEN "load" ELSE "extract"]
    /\ UNCHANGED <<schema_file, network, managers, schema_log, raised>>
    /\ UNCHANGED NotSchema

\* if not self.load_schema(): return {}
RaceLoad(c) ==
    /\ pc = "race"
    /\ callers[c].st = "load"
    /\ LET w == load_schema(World(schema_file, network, 1, managers[1], schema_log))
       IN /\ managers' = [managers EXCEPT ![1].schema_data = w.schema_data]
          /\ schema_file' = w.file
          /\ schema_log' = w.log
          /\ callers' = [callers EXCEPT ![c].st = IF w.ret THEN "extract" ELSE "done"]
    /\ UNCHANGED <<network, raised>>
    /\ UNCHANGED NotSchema

\* the try block up to the cache write; a schema_data of None raises in it
RaceExtract(c) ==
    /\ pc = "race"
    /\ callers[c].st = "extract"
    /\ IF ~IsMapping(managers[1].schema_data)
       THEN /\ callers' = [callers EXCEPT ![c].st = "done"]
            /\ schema_log' = Append(schema_log, Event("extract failed", 1))
       ELSE /\ callers' = [callers EXCEPT
                               ![c].st = "write",
                               ![c].docs = ExtractDocs(managers[1].schema_data.parameters)]
            /\ schema_log' = Append(schema_log, Event("extract", 1))
    /\ UNCHANGED <<schema_file, network, managers, raised>>
    /\ UNCHANGED NotSchema

\* self.endpoints_cache[endpoint_path] = endpoint_docs; return endpoint_docs
RaceWrite(c) ==
    /\ pc = "race"
    /\ callers[c].st = "write"
    /\ managers' = [managers EXCEPT ![1].endpoints_cache = CacheWrite(@, callers[c].docs)]
    /\ callers' = [callers EXCEPT ![c].st = "done", ![c].ret = callers[c].docs,
                                  ![c].wrote = TRUE]
    /\ schema_log' = Append(schema_log, Event("cache", 1))
    /\ UNCHANGED <<schema_file, network, raised>>
    /\ UNCHANGED NotSchema

NextRace ==
    \/ \E c \in CallIds : RaceCheck(c)
    \/ \E c \in CallIds : RaceGuard(c)
    \/ \E c \in CallIds : RaceLoad(c)
    \/ \E c \in CallIds : RaceExtract(c)
    \/ \E c \in CallIds : RaceWrite(c)
    \/ NetworkRecovers
    \/ FileRepaired

SpecRace == InitRace /\ [][NextRace]_vars

(***************************************************************************)
(* Properties of the Consensus Generator                                   *)
(***************************************************************************)
\* The canonical form of a candidate: its fields whatever their order, a
\* multi-valued field as the multiset of its elements.
CanonicalValue(x) ==
    IF x.t = "list"
    THEN [t |-> "sorted",
          v |-> [e \in Range(x.v) |-> Cardinality({i \in DOMAIN x.v : x.v[i] = e})]]
    ELSE x
CanonicalForm(d) == {<<k, CanonicalValue(Get(d, k))>> : k \in Keys(d)}

\* two non-error results of the list have the same canonical form c
AgreeOn(rs, c) ==
    \E i, j \in DOMAIN rs :
        /\ i < j
        /\ ~IsError(rs[i]) /\ ~IsError(rs[j])
        /\ CanonicalForm(rs[i]) = c /\ CanonicalForm(rs[j]) = c

\* C1: _get_consensus returns an agreed value if and only if at least two of
\* the non-error results have identical canonical forms, the value returned
\* is that shared candidate, and otherwise it returns no consensus (False).
C1_ConsensusIffTwoAgree ==
    pc = "voted" =>
        /\ (consensus.t = "dict") <=>
               (\E i \in DOMAIN results : AgreeOn(results, CanonicalForm(results[i])))
        /\ consensus.t = "dict" => AgreeOn(results, CanonicalForm(consensus.v))
        /\ consensus.t # "dict" => consensus = Bool(FALSE)

\* the non-error results of the current group, from what the oracle gave
\* each coroutine last, in task order
OwnCandidates ==
    LET given == SelectSeq([i \in 1..num_generations |-> own[i]],
                           LAMBDA r : r.kind = "return")
    IN [i \in DOMAIN given |-> model_dump(given[i].v)]

\* C2: with repeats = 3, when no round reaches consensus, generate_params
\* returns after exactly 3 rounds one failure bundle: consensus_failed true,
\* the message, and as candidates exactly the non-error candidates of the
\* third round.
C2_FailureBundleAfterThreeRounds ==
    (num_generations = 3 /\ pc = "done") =>
        /\ rounds = 3
        /\ consensus = Bool(FALSE)
        /\ raised = ""
        /\ ret = << << <<"consensus_failed", Bool(TRUE)>>,
                       <<"message", Text(ConsensusFailedMessage)>>,
                       <<"candidates", Dicts(OwnCandidates)>> >> >>

\* three rounds ran without consensus; the last had one failed attempt and
\* two different candidates, which the bundle holds
C2_Witness ==
    /\ num_generations = 3 /\ pc = "done" /\ rounds = 3
    /\ \E i \in 1..3 : own[i].kind = "raise"
    /\ Len(Get(ret[1], "candidates").v) = 2

\* C3: with repeats = 3, once a round reaches consensus the agreed value goes
\* through the Rule Validator and generate_params returns a one-element list
\* holding the resulting record.
C3_ConsensusIsRuleValidatedAndReturned ==
    (num_generations = 3 /\ consensus.t = "dict") =>
        /\ pc = "done"
        /\ raised = ""
        /\ Len(ret) = 1
        /\ Get(run_validation(consensus.v), "status") = Text("valid")
               => ret[1] = Get(run_validation(consensus.v), "corrected_params").v

\* what a coroutine hands back for the oracle's last reply to it
OwnResult(reply) ==
    IF reply.kind = "return" THEN model_dump(reply.v) ELSE ErrorAfter3(reply.v)

\* C4: with repeats = 3, the vote is taken only once all three attempts have
\* finished, and each collected result is that attempt's own generated value
\* or own error descriptor, whatever became of the other two.
C4_VoteAfterAllOwnResults ==
    (num_generations = 3 /\ consensus # Unset) =>
        /\ Len(results) = 3
        /\ pc \in {"join", "spawn", "done", "raised"}
        /\ pc # "join" =>
               \A i \in 1..3 :
                   /\ tasks[i].st = "done"
                   /\ own[i] \in Replies
                   /\ results[i] = OwnResult(own[i])

\* a vote taken on one failed attempt and two attempts that succeeded
C4_Witness ==
    /\ num_generations = 3 /\ consensus # Unset /\ pc = "spawn"
    /\ own[1].kind = "raise" /\ own[2].kind = "return" /\ own[3].kind = "return"
    /\ results[2] = model_dump(own[2].v)

SuccessRecord(r) == Keys(r) = valid_fields
ErrorDescriptor(r) == Keys(r) = {"error message"}
ConsensusFailure(r) ==
    /\ Keys(r) = {"consensus_failed", "message", "candidates"}
    /\ Get(r, "consensus_failed") = Bool(TRUE)

\* C5: for a repeat count of 1 or 3, generate_params always returns a
\* well-formed result list (a success record, an exhausted-retry error
\* descriptor or a consensus-failure bundle) and no exception escapes it.
C5_AlwaysWellFormedResult ==
    num_generations \in {1, 3} =>
        /\ raised = ""
        /\ pc # "raised"
        /\ pc = "done" =>
               /\ Len(ret) = 1
               /\ SuccessRecord(ret[1]) \/ ErrorDescriptor(ret[1]) \/ ConsensusFailure(ret[1])

C7_InvalidRepeatCountRaises ==
    num_generations \notin {1, 3} =>
        /\ ~oracle_called
        /\ calls = <<>>
        /\ rounds = 0
        /\ ret = <<>>
        /\ pc \in {"start", "raised"}
        /\ pc = "raised" => raised = "ValueError"
        /\ pc = "start" => raised = ""

C7_Witness ==
    /\ num_generations = 2 /\ pc = "raised" /\ raised = "ValueError"
    /\ ~oracle_called

(***************************************************************************)
(* Properties of the Rule Validator                                        *)
(***************************************************************************)
Status(r) == Get(r.v, "status").v
IssueKeys(r) == IF HasKey(r.v, "issues") THEN Keys(Get(r.v, "issues").v) ELSE {}

\* the maximal comma-free stretches of s, as <<first, last>> positions
Stretches(s) ==
    {st \in (1..(Len(s) + 1)) \X (0..Len(s)) :
        /\ st[1] <= st[2] + 1
        /\ \A i \in st[1]..st[2] : s[i] # ","
        /\ st[1] = 1 \/ s[st[1] - 1] = ","
        /\ st[2] = Len(s) \/ s[st[2] + 1] = ","}

\* s without the blanks before its first and after its last non-blank
Trimmed(s) ==
    LET ks == {i \in DOMAIN s : s[i] # " "}
    IN IF ks = {} THEN <<>>
       ELSE SubSeq(s, CHOOSE i \in ks : \A j \in ks : i <= j,
                      CHOOSE i \in ks : \A j \in ks : j <= i)

\* the comma-separated tokens of a field: trimmed, the empty ones dropped
TokensOf(x) ==
    IF x = None THEN {}
    ELSE {Trimmed(SubSeq(x.v, st[1], st[2])) : st \in Stretches(x.v)} \ {<<>>}

\* the vocabulary: each symbol with its lower-case spelling
Vocabulary == {<<lower(e), e>> : e \in valid_elements}

\* the vocabulary symbols a field names, whatever the letter case
SymbolsOf(x) ==
    LET named == {lower(tok) : tok \in TokensOf(x)}
    IN {entry[2] : entry \in {en \in Vocabulary : en[1] \in named}}

KeysDeclared(p) ==
    Keys(p) \subseteq {"ima", "hardness_min", "hardness_max", "crystal_system",
                        "el_inc", "el_exc"}
HardnessInRange(p) ==
    /\ \A k \in {"hardness_min", "hardness_max"} :
           Get(p, k) # None => (1 <= Get(p, k).v /\ Get(p, k).v <= 10)
    /\ (Get(p, "hardness_min") # None /\ Get(p, "hardness_max") # None)
           => Get(p, "hardness_min").v <= Get(p, "hardness_max").v
CrystalSystemInEnum(p) ==
    Get(p, "crystal_system") # None
        => Range(Get(p, "crystal_system").v) \subseteq
               {"Amorphous", "Hexagonal", "Icosahedral", "Isometric", "Monoclinic",
                "Orthorhombic", "Tetragonal", "Triclinic", "Trigonal"}
ElementsInVocabulary(p) ==
    \A tok \in TokensOf(Get(p, "el_inc")) \cup TokensOf(Get(p, "el_exc")) :
        \E entry \in Vocabulary : entry[1] = lower(tok)
InclusionExclusionDisjoint(p) ==
    {lower(tok) : tok \in TokensOf(Get(p, "el_inc"))}
        \cap {lower(tok) : tok \in TokensOf(Get(p, "el_exc"))} = {}
SomeSearchField(p) ==
    \E k \in {"ima", "hardness_min", "hardness_max", "crystal_system", "el_inc", "el_exc"} :
        Get(p, k) # None

\* C8: run_validation returns valid if and only if all six checks hold on
\* the record: declared keys, hardness bounds in [1,10] with min <= max,
\* crystal_system within the enum, every el_inc/el_exc token in the
\* vocabulary whatever its case, inclusion and exclusion sets disjoint, and
\* some searchable field non-null; otherwise it returns invalid.
C8_ValidIffAllSixChecks ==
    rule_result # Unset =>
        /\ Status(rule_result) \in {"valid", "invalid"}
        /\ Status(rule_result) = "valid" <=>
               /\ KeysDeclared(params)
               /\ HardnessInRange(params)
               /\ CrystalSystemInEnum(params)
               /\ ElementsInVocabulary(params)
               /\ InclusionExclusionDisjoint(params)
               /\ SomeSearchField(params)

\* the registered checks that fail on the record
FailingChecks(p) == {validators[i] : i \in {j \in DOMAIN validators : ~Validate(validators[j], p).ok}}

\* C9: run_validation runs all six checks on every call and stops at none:
\* the keys of the returned issues are exactly the names of the checks that
\* fail on the record, one issue for each.
C9_IssuesAreExactlyTheFailingChecks ==
    rule_result # Unset =>
        /\ IssueKeys(rule_result) = FailingChecks(params)
        /\ HasKey(rule_result.v, "issues") <=> FailingChecks(params) # {}
        /\ HasKey(rule_result.v, "issues") =>
               Len(Get(rule_result.v, "issues").v) = Cardinality(FailingChecks(params))
        /\ Status(rule_result) = "invalid" <=> FailingChecks(params) # {}

\* hardness_min > hardness_max together with an element on both sides
C9_Witness ==
    /\ rule_result # Unset
    /\ Get(params, "hardness_min") = Num(10) /\ Get(params, "hardness_max") = Num(1)
    /\ Get(params, "el_inc") = Str(<<"f", "e">>) /\ Get(params, "el_exc") = Str(<<"f", "e">>)
    /\ IssueKeys(rule_result) = {"rule_hardness_range", "rule_element_conflict"}

\* c is the symbols of S in canonical case, each once, in ascending order,
\* joined by commas
SortedJoinOf(c, S) ==
    IF S = {} THEN c = <<>>
    ELSE /\ {SubSeq(c, st[1], st[2]) : st \in Stretches(c)} = S
         /\ Cardinality(Stretches(c)) = Cardinality(S)
         /\ \A st1, st2 \in Stretches(c) :
                st1[1] < st2[1] => StrLess(SubSeq(c, st1[1], st1[2]), SubSeq(c, st2[1], st2[2]))

C11_ApplyCorrectionsIdempotent ==
    pc = "correct" =>
        \A i \in 2..Len(corrections) : corrections[i] = corrections[i - 1]

\* "fe,cu" / "s" was corrected to "Cu,Fe" / "S", and corrected again
C11_Witness ==
    /\ pc = "correct" /\ Len(corrections) = 2
    /\ Get(params, "el_inc") = Str(<<"f", "e", ",", "c", "u">>)
    /\ Get(params, "el_exc") = Str(<<"s">>)
    /\ Get(corrections[1], "el_inc") = Str(<<"C", "u", ",", "F", "e">>)
    /\ corrections[1] # params

\* C12: every corrected_params of a valid rule result has el_inc and el_exc
\* disjoint: no symbol is in both corrected fields, also when the input
\* spelled one symbol in different letter case on the two sides.
C12_CorrectedElementsDisjoint ==
    (rule_result # Unset /\ Status(rule_result) = "valid") =>
        LET corrected == Get(rule_result.v, "corrected_params").v
        IN TokensOf(Get(corrected, "el_inc")) \cap TokensOf(Get(corrected, "el_exc")) = {}

\* C13: run_validation never raises: for every record, also one whose field
\* values have an unexpected type, it returns a result with status valid or
\* invalid.
C13_RunValidationNeverRaises ==
    pc \in {"rule", "raised"} =>
        /\ pc # "raised"
        /\ raised = ""
        /\ rule_result # Unset => Status(rule_result) \in {"valid", "invalid"}

(***************************************************************************)
(* Properties of the consensus vote                                        *)
(***************************************************************************)
\* C14: consensus compares canonical forms: two non-error candidates that
\* differ only in the order of their fields or in the order of the elements
\* of a multi-valued field count as identical and form a consensus.
C14_OrderInsensitiveConsensus ==
    pc = "voted" =>
        \A i, j \in DOMAIN results :
            (/\ i < j
             /\ ~IsError(results[i]) /\ ~IsError(results[j])
             /\ CanonicalForm(results[i]) = CanonicalForm(results[j]))
                => /\ consensus.t = "dict"
                   /\ \E k \in DOMAIN results :
                          CanonicalForm(consensus.v) = CanonicalForm(results[k])

\* the orderings of a list of three
Permutations3(rs) ==
    {[i \in 1..3 |-> rs[f[i]]] : f \in {g \in [1..3 -> 1..3] : Range(g) = 1..3}}

\* C15: for three results of which at least two have the same canonical
\* form, _get_consensus returns a value of that canonical form, and returns
\* the same value for every ordering of the three results.
C15_ConsensusPositionIndependent ==
    (pc = "voted" /\ Len(results) = 3) =>
        \A i \in DOMAIN results :
            AgreeOn(results, CanonicalForm(results[i])) =>
                /\ consensus.t = "dict"
                /\ CanonicalForm(consensus.v) = CanonicalForm(results[i])
                /\ \A perm \in Permutations3(results) : _get_consensus(perm) = consensus

(***************************************************************************)
(* Properties of ValidationPipeline.validate and of the Semantic Validator *)
(***************************************************************************)
RulePassed == rule_result # Unset /\ Status(rule_result) = "valid"
RuleRejected == rule_result # Unset /\ Status(rule_result) # "valid"

\* C16: when rule validation fails, validate returns at once the rule
\* result, status invalid with the rule issues, and neither the Semantic
\* Validator nor its oracle is invoked in that call.
C16_RuleFailureReturnsAtOnce ==
    RuleRejected =>
        /\ pc = "done"
        /\ validate_ret = rule_result
        /\ Status(validate_ret) = "invalid"
        /\ Get(validate_ret.v, "issues") = Dict(RunValidators(params, 1, <<>>))
        /\ semantic_calls = <<>>
        /\ semantic_prompts = <<>>
        /\ semantic_reply = NoReply
        /\ model_result = Unset

\* an invalid record given with a query to a pipeline that has an llm
C16_Witness ==
    /\ RuleRejected /\ pc = "done"
    /\ original_query # "" /\ llm = Llm
    /\ IssueKeys(validate_ret) = {"rule_hardness_range"}

\* C17: validate invokes the Semantic Validator only after rule validation
\* has passed and only when a non-empty original query was given, and hands
\* it the rule-corrected parameters, not the raw input.
C17_SemanticAfterRuleOnCorrected ==
    /\ Len(semantic_calls) <= 1
    /\ Len(semantic_prompts) <= Len(semantic_calls)
    /\ \A i \in DOMAIN semantic_calls :
           /\ RulePassed
           /\ original_query # ""
           /\ semantic_calls[i].original_query = original_query
           /\ semantic_calls[i].params = Get(rule_result.v, "corrected_params").v
           /\ semantic_calls[i].params = apply_corrections(params)
    /\ \A i \in DOMAIN semantic_prompts :
           semantic_prompts[i].params = apply_corrections(params)

\* "fe,cu" / "s" reached the semantic oracle as "Cu,Fe" / "S"
C17_Witness ==
    /\ pc = "semantic_check"
    /\ Get(params, "el_inc") = Str(<<"f", "e", ",", "c", "u">>)
    /\ Get(semantic_prompts[1].params, "el_inc") = Str(<<"C", "u", ",", "F", "e">>)
    /\ Get(semantic_prompts[1].params, "el_exc") = Str(<<"S">>)

\* C18: every result of validate whose rule validation succeeded carries
\* corrected_params equal to the Rule Validator's corrected parameters,
\* whatever the semantic status and whether or not the semantic layer ran;
\* a result whose rule validation failed carries none.
C18_ResultCarriesCorrectedParams ==
    validate_ret # Unset =>
        /\ RulePassed =>
               /\ HasKey(validate_ret.v, "corrected_params")
               /\ Get(validate_ret.v, "corrected_params") =
                      Get(rule_result.v, "corrected_params")
               /\ Get(validate_ret.v, "corrected_params") = Dict(apply_corrections(params))
        /\ RuleRejected => ~HasKey(validate_ret.v, "corrected_params")

\* the semantic layer answered uncertain, and the result has the corrections
C18_Witness ==
    /\ validate_ret # Unset /\ RulePassed
    /\ model_result # Unset /\ Status(model_result) = "uncertain"
    /\ ~HasKey(model_result.v, "corrected_params")
    /\ Get(params, "el_inc") = Str(<<"f", "e", ",", "c", "u">>)
    /\ Get(Get(validate_ret.v, "corrected_params").v, "el_inc")
           = Str(<<"C", "u", ",", "F", "e">>)

\* C19: when rule validation passes and no original query is given or the
\* pipeline was built without an llm, validate goes from the rule check
\* directly to the final status valid, without a semantic check.
C19_NoQueryOrNoLlmIsValid ==
    (RulePassed /\ (original_query = "" \/ llm = None)) =>
        /\ pc = "done"
        /\ validate_ret = rule_result
        /\ Status(validate_ret) = "valid"
        /\ semantic_calls = <<>>
        /\ model_result = Unset

\* C20: the Semantic Validator is fail-closed: whenever its oracle call
\* raises, its result is status invalid with an issue under _error, and no
\* exception reaches the caller.
C20_SemanticFailClosed ==
    semantic_reply.kind = "raise" =>
        /\ pc = "done"
        /\ raised = ""
        /\ Status(model_result) = "invalid"
        /\ "_error" \in IssueKeys(model_result)
        /\ Status(validate_ret) = "invalid"
        /\ "_error" \in IssueKeys(validate_ret)

\* the oracle call timed out
C20_Witness ==
    /\ semantic_reply = Raised(TimeoutError)
    /\ pc = "done"
    /\ Status(validate_ret) = "invalid"
    /\ Get(Get(validate_ret.v, "issues").v, "_error") =
           IssueEntry(None, <<"Validation error: ", "timed out">>, Dict(<<>>))

\* the documentation entry the endpoint of the call has for a name ({} = none)
DocEntry(name) ==
    IF endpoint = "/v1/geomaterials/" /\ HasKey(endpoint_docs, name)
    THEN Get(endpoint_docs, name)
    ELSE Dict(<<>>)

\* the issue stored under `name` is {value, reason, api_doc} for the params
\* `p` that were validated
WellFormedIssue(name, entry, p) ==
    /\ entry.t = "dict"
    /\ Keys(entry.v) = {"value", "reason", "api_doc"}
    /\ IF name = "_error"
       THEN Get(entry.v, "value") = None
       ELSE /\ Get(entry.v, "value") = Get(p, name)
            /\ Get(entry.v, "api_doc") = DocEntry(name)

\* C21: every Semantic Validator result has status valid, invalid or
\* uncertain, and a result whose status is not valid carries an issues
\* mapping from parameter name (or _error) to {value, reason, api_doc},
\* also when the oracle answered invalid or uncertain and listed no issue.
C21_SemanticResultShape ==
    model_result # Unset =>
        /\ Status(model_result) \in {"valid", "invalid", "uncertain"}
        /\ Status(model_result) # "valid" =>
               /\ HasKey(model_result.v, "issues")
               /\ LET issues == Get(model_result.v, "issues").v
                  IN \A i \in DOMAIN issues :
                         WellFormedIssue(issues[i][1], issues[i][2], semantic_calls[1].params)

(***************************************************************************)
(* Properties of the Schema Registry                                       *)
(***************************************************************************)
\* C22: the schema is fetched and cached once per process and endpoint:
\* after the first successful population of the endpoint's docs, through
\* whichever instance, no get_params_info or validator construction
\* downloads or loads the schema document or extracts the docs again.
C22_SchemaLoadedOncePerProcess ==
    pc = "schema" =>
        \A i, j \in DOMAIN schema_log :
            (i < j /\ schema_log[i].ev = "cache")
                => schema_log[j].ev \notin {"download", "load", "extract", "cache"}

\* the schema document could not be fetched, read or parsed when call c
\* was made, and the instance had no docs cached
SchemaUnavailable(c) ==
    /\ callers[c] # NoCall
    /\ ~callers[c].cached
    /\ \/ callers[c].file \in {"unparsable", "empty"}
       \/ callers[c].file = "missing" /\ callers[c].net = "down"

\* C23: when the schema document cannot be fetched, read or parsed,
\* get_params_info returns an empty mapping and does not raise, whatever
\* names are asked for.
C23_UnavailableSchemaGivesEmpty ==
    pc = "schema" =>
        /\ raised = ""
        /\ \A c \in CallIds : SchemaUnavailable(c) => callers[c].ret = <<>>

\* the file cannot be parsed; names were asked for and none was returned
C23_Witness ==
    /\ pc = "schema" /\ SchemaUnavailable(1)
    /\ callers[1].file = "unparsable"
    /\ callers[1].endpoint = endpoint_path
    /\ callers[1].param_names = <<"ima", "el_inc">>
    /\ callers[1].ret = <<>>

\* the docs one population of the cache from the schema document gives
SinglePopulationDocs == ExtractDocs(GoodSchema.parameters)

\* C24: a first-population race is harmless: when several callers found the
\* cache entry missing and each populated it, then under every interleaving
\* the cache holds the docs a single population gives, and each of these
\* callers received those docs.
C24_PopulationRaceHarmless ==
    pc = "race" =>
        \A c \in CallIds :
            (callers[c].st = "done" /\ callers[c].wrote) =>
                /\ callers[c].ret = SinglePopulationDocs
                /\ Get(managers[1].endpoints_cache, endpoint_path)
                       = Dict(SinglePopulationDocs)

\* two callers missed the cache, both extracted before either wrote, and
\* both wrote
C24_Witness ==
    /\ pc = "race"
    /\ callers[1].st = "done" /\ callers[1].wrote
    /\ callers[2].st = "done" /\ callers[2].wrote
    /\ \E i, j \in DOMAIN schema_log :
           /\ j = i + 1
           /\ schema_log[i].ev = "extract" /\ schema_log[j].ev = "extract"

\* C25: in _generate_once the first oracle call carries no error feedback,
\* and the prompt of each retry carries the exception type and message of
\* the immediately preceding failed call (the third call reports the second
\* call's failure, not the first's).
C25_RetryCarriesPrecedingFailure ==
    pc \in {"once", "done"} =>
        \A k \in DOMAIN calls :
            IF k = 1
            THEN calls[k].prompt.feedback = <<>>
            ELSE /\ calls[k - 1].reply.kind = "raise"
                 /\ Len(calls[k].prompt.feedback) = 3
                 /\ calls[k].prompt.feedback[2] = calls[k - 1].reply.v.type
                 /\ calls[k].prompt.feedback[3] = calls[k - 1].reply.v.msg

\* three calls were made, the first two failing with different exceptions
C25_Witness ==
    /\ pc \in {"once", "done"}
    /\ Len(calls) = 3
    /\ calls[1].reply.kind = "raise"
    /\ calls[2].reply.kind = "raise"
    /\ calls[1].reply.v # calls[2].reply.v

\* the most oracle calls one _generate_once makes
MaxTries == RetryRange
\* the most oracle calls of generate_params with three attempts a round
MaxOracleCalls == max_consensus_attempts * 3 * RetryRange

\* C26: with repeats = 3 generate_params stops at the first round that
\* reaches consensus: once a round yielded consensus no further round is
\* launched and no further oracle call is made, and a new round is started
\* only after the previous round produced no consensus.
C26_StopsAtFirstConsensus ==
    [][(pc \in {"start", "spawn", "join", "done", "raised"} /\ num_generations = 3) =>
        /\ (consensus # Unset /\ consensus.t = "dict") =>
               (rounds' = rounds /\ tasks' = tasks /\ own' = own
                /\ oracle_called' = oracle_called)
        /\ (rounds' # rounds /\ rounds >= 1) =>
               (/\ rounds' = rounds + 1
                /\ AllTasksDone(tasks, num_generations)
                /\ consensus = _get_consensus(TaskResults(tasks, num_generations))
                /\ consensus.t # "dict")]_vars

\* a round reached consensus after an earlier round had not
C26_Witness ==
    /\ num_generations = 3
    /\ rounds = 2
    /\ consensus # Unset
    /\ consensus.t = "dict"

\* C27: provided every oracle call eventually returns or fails,
\* generate_params always terminates, after at most 3 oracle calls for
\* repeats = 1 and at most 27 for repeats = 3.
C27_TerminatesWithinCallBudget ==
    /\ <>(pc \in {"done", "raised"})
    /\ [](num_generations = 1 => oracle_calls <= MaxTries)
    /\ [](num_generations = 3 => oracle_calls <= MaxOracleCalls)

\* generate_params returned after all 27 oracle calls failed
C27_Witness ==
    /\ pc = "done"
    /\ num_generations = 3
    /\ oracle_calls = MaxOracleCalls

\* a field that is absent, null or the empty string
AbsentOrEmpty(x) == x = None \/ x = Str(<<>>)

\* C28: for every record whose el_inc and el_exc both are non-empty and
\* share at least one token (after splitting on commas and trimming
\* whitespace), run_validation returns invalid and issues contains the
\* rule_element_conflict key; when either field is absent or empty the
\* conflict check passes.
C28_SharedTokenIsConflict ==
    (pc = "rule" /\ rule_result # Unset) =>
        LET el_inc == Get(params, "el_inc")
            el_exc == Get(params, "el_exc")
        IN /\ (/\ ~AbsentOrEmpty(el_inc)
               /\ ~AbsentOrEmpty(el_exc)
               /\ TokensOf(el_inc) \cap TokensOf(el_exc) # {}) =>
                  /\ Status(rule_result) = "invalid"
                  /\ "rule_element_conflict" \in IssueKeys(rule_result)
           /\ (AbsentOrEmpty(el_inc) \/ AbsentOrEmpty(el_exc)) =>
                  "rule_element_conflict" \notin IssueKeys(rule_result)

\* a record that names no other fault, whose two fields share a symbol that
\* one of them writes with blanks around it
C28_Witness ==
    /\ pc = "rule"
    /\ rule_result # Unset
    /\ Get(params, "el_inc") = Str(<<"f", "e", ",", " ", "c", "u", " ">>)
    /\ Get(params, "el_exc") = Str(<<"c", "u">>)
    /\ IssueKeys(rule_result) = {"rule_element_conflict"}

\* C29: the documentation handed to the semantic oracle is restricted to
\* the validated parameters: its key set is exactly the keys of params that
\* also exist in the endpoint's documentation, each entry being that
\* parameter's {name, description, schema}; a name missing from the
\* endpoint documentation, or any name under an endpoint other than
\* /v1/geomaterials/, contributes no entry.
C29_DocsRestrictedToParams ==
    \A i \in DOMAIN semantic_prompts :
        LET prompt == semantic_prompts[i]
            api_docs == prompt.api_docs
        IN /\ Keys(api_docs) =
                  IF endpoint = "/v1/geomaterials/"
                  THEN Keys(prompt.params) \cap Keys(endpoint_docs)
                  ELSE {}
           /\ Len(api_docs) = Cardinality(Keys(api_docs))
           /\ \A j \in DOMAIN api_docs :
                  LET name == api_docs[j][1]
                      entry == api_docs[j][2]
                  IN /\ entry = Get(endpoint_docs, name)
                     /\ entry.t = "dict"
                     /\ Keys(entry.v) = {"name", "description", "schema"}
                     /\ Get(entry.v, "name") = Text(name)

\* the oracle was handed docs for the five fields the endpoint documents,
\* none for ima, which it does not, and none for expand, which was not
\* validated
C29_Witness ==
    /\ Len(semantic_prompts) = 1
    /\ endpoint = "/v1/geomaterials/"
    /\ "expand" \in Keys(endpoint_docs)
    /\ "ima" \notin Keys(endpoint_docs)
    /\ "ima" \in Keys(semantic_prompts[1].params)
    /\ Cardinality(Keys(semantic_prompts[1].api_docs)) = 5

\* C30: the correction step changes nothing but the element fields:
\* corrected_params equals the input record on every field other than
\* el_inc and el_exc, and the input record passed to run_validation /
\* apply_corrections is itself left unmodified.
C30_CorrectionTouchesElementFieldsOnly ==
    [][pc = "rule" =>
        /\ params' = params
        /\ (rule_result' # Unset /\ Status(rule_result') = "valid") =>
               LET corrected == Get(rule_result'.v, "corrected_params").v
               IN /\ KeyList(corrected) = KeyList(params)
                  /\ \A k \in Keys(params) \ {"el_inc", "el_exc"} :
                         Get(corrected, k) = Get(params, k)]_vars

\* a record with other fields set was corrected in both element fields
C30_Witness ==
    /\ pc = "rule"
    /\ RulePassed
    /\ Get(params, "ima") = Bool(TRUE)
    /\ Get(params, "hardness_min") = Num(1)
    /\ Get(params, "crystal_system") = List(<<"Hexagonal">>)
    /\ Get(params, "el_inc") = Str(<<"f", "e">>)
    /\ Get(Get(rule_result.v, "corrected_params").v, "el_inc") = Str(<<"F", "e">>)

\* the events of the history that tell a failed load or extraction
FailureEvents == {"download failed", "load failed", "extract failed"}

\* the schema document can be loaded: the file holds it, or the file is
\* missing and the server that has it is reachable
Loadable(file, net) == file = "good" \/ (file = "missing" /\ net = "up")

\* C31: a failed schema load is not cached: when get_geomaterials_endpoint
\* cannot load or extract the schema it returns an empty mapping and leaves
\* endpoints_cache unchanged, so a later call attempts the load again and
\* returns the real docs once the load succeeds.
C31_FailedLoadNotCached ==
    [][pc = "schema" =>
        \A c \in CallIds :
            (/\ callers[c] = NoCall
             /\ callers'[c] # NoCall
             /\ callers'[c].endpoint = endpoint_path
             /\ ~callers'[c].cached) =>
                LET m == callers'[c].m
                    new == SubSeq(schema_log', Len(schema_log) + 1, Len(schema_log'))
                IN /\ (\E i \in DOMAIN new : new[i].ev \in FailureEvents) =>
                          /\ callers'[c].ret = <<>>
                          /\ managers'[m].endpoints_cache = managers[m].endpoints_cache
                   /\ Loadable(schema_file, network) =>
                          /\ \E i \in DOMAIN new : new[i].ev = "load"
                          /\ callers'[c].ret =
                                 get_params_info(callers'[c].param_names, endpoint_path,
                                                 SinglePopulationDocs)]_vars

\* C32: with repeats = 1, generate_params returns the single attempt's
\* outcome as a one-element list exactly as produced (the generated record
\* or the error descriptor): no consensus vote, no Rule Validator call and
\* no element-symbol correction is applied to it.
C32_SingleAttemptReturnedAsProduced ==
    (num_generations = 1 /\ pc \in {"start", "single", "done", "raised"}) =>
        /\ consensus = Unset
        /\ rounds = 0
        /\ results = <<>>
        /\ rule_result = Unset
        /\ corrections = <<>>
        /\ raised = ""
        /\ pc = "done" =>
               /\ own[1] \in CountReplies
               /\ ret = <<OwnResult(own[1])>>

\* a record with lower-case symbols, which the correction step would
\* change, was returned as the oracle gave it
C32_Witness ==
    /\ num_generations = 1
    /\ pc = "done"
    /\ own[1] = Returned(RespLowerCase)
    /\ ret = <<model_dump(RespLowerCase)>>
    /\ apply_corrections(ret[1]) # ret[1]

\* C33: an error descriptor is never treated as a candidate: a result
\* carrying an "error message" key is never returned as the consensus
\* value, even when two or three attempts fail with identical descriptors,
\* and never appears in the candidates of a consensus-failure bundle.
C33_ErrorDescriptorNeverCandidate ==
    (num_generations = 3 /\ pc \in {"start", "spawn", "join", "done", "raised"}) =>
        /\ (consensus # Unset /\ consensus.t = "dict") => ~IsError(consensus.v)
        /\ \A i \in DOMAIN ret :
               /\ ~IsError(ret[i])
               /\ HasKey(ret[i], "candidates") =>
                      \A j \in DOMAIN Get(ret[i], "candidates").v :
                          ~IsError(Get(ret[i], "candidates").v[j])

\* the last round had two attempts fail with the same descriptor and one
\* succeed: no consensus, and the bundle holds the one success alone
C33_Witness ==
    /\ num_generations = 3
    /\ pc = "done"
    /\ results[1] = ErrorAfter3(TimeoutError)
    /\ results[2] = results[1]
    /\ ~IsError(results[3])
    /\ consensus = Bool(FALSE)
    /\ Get(ret[1], "candidates").v = <<results[3]>>

\* two results are the same candidate: neither is an error descriptor and
\* their canonical texts are equal
SameCandidate(r1, r2) ==
    /\ ~IsError(r1)
    /\ ~IsError(r2)
    /\ json_dumps_sort_keys(r1) = json_dumps_sort_keys(r2)

\* C34: consensus is decided within a single round only: candidates of
\* different rounds are never combined, so two identical candidates
\* produced in different rounds (with no matching pair inside any one
\* round) do not yield consensus, and each new round's vote sees only that
\* round's three results.
C34_ConsensusWithinOneRound ==
    [][(num_generations = 3 /\ pc = "join" /\ pc' # "join") =>
        LET round == [i \in 1..3 |-> OwnResult(own[i])]
        IN /\ \A i \in 1..3 : tasks[i].st = "done" /\ own[i] \in Replies
           /\ results' = round
           /\ consensus' = _get_consensus(round)
           /\ consensus'.t = "dict" =>
                  \E i, j \in 1..3 :
                      /\ i < j
                      /\ SameCandidate(round[i], round[j])
                      /\ json_dumps_sort_keys(consensus'.v) = json_dumps_sort_keys(round[i])
           /\ (\A i, j \in 1..3 : i < j => ~SameCandidate(round[i], round[j])) =>
                  /\ consensus' = Bool(FALSE)
                  /\ pc' \in {"spawn", "done"}]_vars

\* the second round is about to be voted on: one of its candidates was
\* also produced in the first round, and neither round has a matching pair
C34_Witness ==
    /\ num_generations = 3
    /\ pc = "join"
    /\ rounds = 2
    /\ AllTasksDone(tasks, num_generations)
    /\ Len(results) = 3
    /\ \A i, j \in 1..3 : i < j => ~SameCandidate(results[i], results[j])
    /\ \A i, j \in 1..3 :
           i < j => ~SameCandidate(OwnResult(own[i]), OwnResult(own[j]))
    /\ \E i, j \in 1..3 : SameCandidate(results[i], OwnResult(own[j]))

====
